---- MODULE Spec2Model ----
(***************************************************************************)
(* Chronoshift: the provider registry (src/src/registry.ts), the display   *)
(* renderer (src/src/renderer.ts), the visual renderer                     *)
(* (src/src/visual-renderer.ts), the host application that drives them    *)
(* (src/unnamed/part_005, the main module), and the date functions of the  *)
(* standard, swatch-beats and French Republican providers.                 *)
(*                                                                         *)
(* JavaScript values are records [type, val]: type is the result of        *)
(* typeof (with "null" kept apart from "object"), val a text.  Objects of  *)
(* the registration list are referred to by their position in the list,    *)
(* which stands for the object's reference identity.                       *)
(***************************************************************************)
EXTENDS Integers, Sequences, FiniteSets, TLC

VARIABLES
  systems,      \* registry.ts:5   the registration list
  regIdx,       \* registry.ts:9   position of the for..of loop
  regStatus,    \* "loading" | "loaded" | "threw": progress of the module body
  registry,     \* registry.ts:7   the Map, as its insertion-ordered entries
  warnings,     \* console.warn calls made so far
  ret,          \* value returned by the last call of an exported function
  display,      \* part_005:8     the #time-display element render paints into
  output,       \* part_005:28    the TimeDisplay last handed to render
  replaced,     \* history: the class string the target carried when the
                \* latest render call began ("" before any call)
  held,         \* an array a caller got from getAllSystems() and then wrote to
  hostStatus,   \* "unloaded" | "loaded" | "running" | "crashed": progress of
                \* the main module (before line 11, before init(), after
                \* init() returned, after an exception escaped the module body)
  currentSystem,    \* part_005:11
  tickHandle,       \* part_005:12
  timers,           \* the intervals armed by setInterval and not cleared
  nextHandle,       \* the handle the next setInterval returns
  storage,          \* localStorage['chronoshift-system']
  selector,         \* part_005:6   the options and the selected value
  learnMoreLink,    \* part_005:9   href and style.display
  visualContainer,  \* part_005:7   the #time-visual element
  visualCall,       \* history: the latest call of renderVisual or clearVisual
                    \* (its arguments, the scaffold it met, whether it threw)
  dateArg,      \* the Date handed to a provider's function, with the zone of
                \* the host it was made on
  result,       \* what the provider's function returned for dateArg
  rep           \* part_003:85-93  the locals of gregorianToRepublican

regVars == <<systems, regIdx, regStatus, registry, warnings>>

domVars == <<display, output, replaced>>

hostVars ==
  <<hostStatus, currentSystem, tickHandle, timers, nextHandle, storage,
    selector, learnMoreLink, visualContainer, visualCall>>

provVars == <<dateArg, result, rep>>

vars ==
  <<systems, regIdx, regStatus, registry, warnings, ret, display, output, replaced,
    held, hostStatus, currentSystem, tickHandle, timers, nextHandle, storage,
    selector, learnMoreLink, visualContainer, visualCall, dateArg, result, rep>>

-----------------------------------------------------------------------------
(* Bounds of the model *)

MaxSystems == 3

\* Longest segment sequence of a Segmented display.
MaxSegments == 3

\* Longest registration list of the host specification.
MaxHostSystems == 2

\* Last instant a tick may read from the clock.
MaxNow == 1

\* Number of setInterval calls followed.
MaxTimers == 3

\* The latest date handed to the French Republican provider, in days after
\* its epoch: the years I to XXIV, with the leap years III to XIX of the
\* first rule and the leap year XXIV of the second.
MaxRepublicanDays == 8770

-----------------------------------------------------------------------------
(* JavaScript values *)

Str(s) == [type |-> "string", val |-> s]

Num(s) == [type |-> "number", val |-> s]

Undef == [type |-> "undefined", val |-> ""]

Fn == [type |-> "function", val |-> "format"]

\* The reference returned where the code returns undefined instead of a
\* provider object (Map.get on a missing key, index 0 of an empty array).
UndefinedRef == 0

\* A candidate of the registration list.  A candidate that is not an object
\* has no own fields: reading one gives undefined.
NoVisual == [type |-> "undefined"]

\* formatBody is what the candidate's format does when called: the display
\* variant it returns, or "throws".
Obj(id, name, description, format) ==
  [type |-> "object", id |-> id, name |-> name, description |-> description,
   format |-> format, formatBody |-> "unified", category |-> Str("epoch"),
   tickInterval |-> Undef, learnMoreUrl |-> Undef, visual |-> NoVisual]

NonObj(t) ==
  [type |-> t, id |-> Undef, name |-> Undef, description |-> Undef,
   format |-> Undef, formatBody |-> "throws", category |-> Undef,
   tickInterval |-> Undef, learnMoreUrl |-> Undef, visual |-> NoVisual]

Provider(id) == Obj(Str(id), Str("name"), Str("description"), Fn)

ProviderIds == {"standard", "epoch-seconds", "holocene"}

\* A candidate with the fields validateSystem does not look at replaced:
\* no category, a text as tickInterval, a number as learnMoreUrl and a
\* visual of no known type.
OddOptionals(c) ==
  [c EXCEPT !.category = Undef, !.tickInterval = Str("fast"),
            !.learnMoreUrl = Num("0"), !.visual = [type |-> "hologram"]]

\* A candidate with faultless optional fields.
FineOptionals(c) ==
  [c EXCEPT !.category = Str("calendar"), !.tickInterval = Num("1000"),
            !.learnMoreUrl = Str("https://en.wikipedia.org/wiki/Holocene_calendar")]

\* Candidates the registration list is drawn from: well-formed providers,
\* objects with one required field missing or of the wrong type, values
\* that are no objects, and a well-formed and a malformed candidate whose
\* optional fields are odd, respectively faultless.
RegCandidates ==
  {Provider(id) : id \in ProviderIds}
    \cup {OddOptionals(Provider("holocene")),
          FineOptionals(Obj(Str("holocene"), Str("name"), Str("description"), Undef))}
    \cup {Obj(Str("epoch-seconds"), Str("name"), Str("description"), Undef),
          Obj(Str("standard"), Str("name"), Str("description"), Str("HH:mm")),
          Obj(Undef, Str("name"), Str("description"), Fn),
          Obj(Num("42"), Str("name"), Str("description"), Fn),
          Obj(Str("holocene"), Undef, Str("description"), Fn),
          Obj(Str("holocene"), Str("name"), Num("7"), Fn),
          NonObj("null"), NonObj("undefined"), NonObj("number")}

SeqsUpTo(S, n) == UNION {[1..k -> S] : k \in 0..n}

-----------------------------------------------------------------------------
(* registry.ts *)

\* !s for the candidates of the model: null and undefined are falsy; the
\* number candidate stands for a non-zero number.
Falsy(s) == s.type \in {"null", "undefined"}

\* Variant of validateSystem that forgets the check of description.
validateSystem_noDescription(s) ==
  IF Falsy(s) \/ s.type # "object" THEN FALSE
  ELSE /\ s.id.type = "string"
       /\ s.name.type = "string"
       /\ s.format.type = "function"

\* Variant of validateSystem that forgets the check of format.
validateSystem_noFormat(s) ==
  IF Falsy(s) \/ s.type # "object" THEN FALSE
  ELSE /\ s.id.type = "string"
       /\ s.name.type = "string"
       /\ s.description.type = "string"

\* Variant of validateSystem that also wants a numeric tickInterval.
validateSystem_needsInterval(s) ==
  IF Falsy(s) \/ s.type # "object" THEN FALSE
  ELSE /\ s.id.type = "string"
       /\ s.name.type = "string"
       /\ s.description.type = "string"
       /\ s.format.type = "function"
       /\ s.tickInterval.type = "number"

\* registry.ts:22-31
validateSystem(s) ==
  IF Falsy(s) \/ s.type # "object" THEN FALSE
  ELSE /\ s.id.type = "string"
       /\ s.name.type = "string"
       /\ s.description.type = "string"
       /\ s.format.type = "function"

\* Map: an insertion-ordered sequence of entries [key, ref].
MapHas(m, k) == \E i \in 1..Len(m) : m[i].key = k

MapGet(m, k) ==
  IF MapHas(m, k) THEN (CHOOSE e \in {m[i] : i \in 1..Len(m)} : e.key = k).ref
  ELSE UndefinedRef

\* Map.set keeps the position of a key that is already present.
MapSet(m, k, r) ==
  IF MapHas(m, k)
  THEN [i \in 1..Len(m) |-> IF m[i].key = k THEN [key |-> k, ref |-> r] ELSE m[i]]
  ELSE Append(m, [key |-> k, ref |-> r])

MapValues(m) == [i \in 1..Len(m) |-> m[i].ref]

\* registry.ts:11  reading .id of null or undefined raises a TypeError.
ReadIdThrows(s) == s.type \in {"null", "undefined"}

\* registry.ts:11  (system).id ?? 'unknown'
WarnId(s) == IF s.id.type = "undefined" THEN "unknown" ELSE s.id.val

InvalidWarning(s) == [msg |-> "Invalid system definition", id |-> WarnId(s)]

DuplicateWarning(s) == [msg |-> "Duplicate system ID", id |-> s.id.val]

\* Variant of the duplicate test that lets every valid candidate through to
\* registry.set.
IsDuplicate_never(m, s) == FALSE

\* registry.ts:15
IsDuplicate(m, s) == MapHas(m, s.id.val)

\* registry.ts:9-20  one iteration of the population loop.
RegisterNext ==
  /\ regStatus = "loading"
  /\ regIdx <= Len(systems)
  /\ LET system == systems[regIdx] IN
       IF ~validateSystem(system)
       THEN IF ReadIdThrows(system)
            THEN /\ regStatus' = "threw"
                 /\ UNCHANGED <<regIdx, registry, warnings>>
            ELSE /\ warnings' = Append(warnings, InvalidWarning(system))
                 /\ regIdx' = regIdx + 1
                 /\ UNCHANGED <<regStatus, registry>>
       ELSE IF IsDuplicate(registry, system)
            THEN /\ warnings' = Append(warnings, DuplicateWarning(system))
                 /\ regIdx' = regIdx + 1
                 /\ UNCHANGED <<regStatus, registry>>
            ELSE /\ registry' = MapSet(registry, system.id.val, regIdx)
                 /\ regIdx' = regIdx + 1
                 /\ UNCHANGED <<regStatus, warnings>>
  /\ UNCHANGED <<provVars, systems, ret, domVars, held, hostVars>>

\* registry.ts:20  the loop ends and the module's exports become callable.
RegisterDone ==
  /\ regStatus = "loading"
  /\ regIdx > Len(systems)
  /\ regStatus' = "loaded"
  /\ UNCHANGED <<provVars, systems, regIdx, registry, warnings, ret, domVars, held, hostVars>>

\* Variant of getAllSystems that hands out the array the registry itself
\* keeps, instead of a copy.
getAllSystems_shared(m) == [refs |-> MapValues(m), fresh |-> FALSE]

\* registry.ts:33-35  Array.from builds a new array on every call: fresh
\* says that the array shares no storage with the registry.
getAllSystems(m) == [refs |-> MapValues(m), fresh |-> TRUE]

getSystem(m, id) == MapGet(m, id)

\* Variant of getDefaultSystem that always takes the first value.
getDefaultSystem_first(m) ==
  IF Len(MapValues(m)) >= 1 THEN MapValues(m)[1] ELSE UndefinedRef

getDefaultSystem(m) ==
  IF MapGet(m, "standard") # UndefinedRef THEN MapGet(m, "standard")
  ELSE IF Len(MapValues(m)) >= 1 THEN MapValues(m)[1] ELSE UndefinedRef

\* Ids a caller looks up: the providers' ids and one no provider has.
LookupIds == ProviderIds \cup {"stardate"}

CallGetAllSystems ==
  /\ regStatus = "loaded"
  /\ ret' = [fn |-> "getAllSystems", arg |-> "",
             refs |-> getAllSystems(registry).refs,
             fresh |-> getAllSystems(registry).fresh]
  /\ UNCHANGED <<provVars, regVars, domVars, held, hostVars>>

CallGetSystem ==
  /\ regStatus = "loaded"
  /\ \E id \in LookupIds :
       ret' = [fn |-> "getSystem", arg |-> id,
               refs |-> <<getSystem(registry, id)>>, fresh |-> TRUE]
  /\ UNCHANGED <<provVars, regVars, domVars, held, hostVars>>

CallGetDefaultSystem ==
  /\ regStatus = "loaded"
  /\ ret' = [fn |-> "getDefaultSystem", arg |-> "",
             refs |-> <<getDefaultSystem(registry)>>, fresh |-> TRUE]
  /\ UNCHANGED <<provVars, regVars, domVars, held, hostVars>>

NoRet == [fn |-> "", arg |-> "", refs |-> <<>>, fresh |-> TRUE]

\* No array has been written to.
NoArray == [refs |-> <<>>, fresh |-> TRUE, written |-> FALSE]

\* What a write to an array does to the registry: nothing when the array is
\* a copy; an array that is the registry's own storage loses the entry too.
RegistryAfterPop(m, array) ==
  IF array.fresh THEN m ELSE SubSeq(m, 1, Len(m) - 1)

\* A caller removes the last element of the array getAllSystems() returned
\* to it (array.pop()).
CallerModifies ==
  /\ regStatus = "loaded"
  /\ ret.fn = "getAllSystems"
  /\ Len(ret.refs) > 0
  /\ held' = [refs |-> SubSeq(ret.refs, 1, Len(ret.refs) - 1), fresh |-> ret.fresh,
              written |-> TRUE]
  /\ ret' = [fn |-> "pop", arg |-> "", refs |-> <<ret.refs[Len(ret.refs)]>>,
             fresh |-> TRUE]
  /\ registry' = RegistryAfterPop(registry, ret)
  /\ UNCHANGED <<provVars, systems, regIdx, regStatus, warnings, domVars, hostVars>>

-----------------------------------------------------------------------------
(* renderer.ts *)

\* A DOM element: its class, its own text and its child elements in order.
El(tag, cls, text, kids) ==
  [tag |-> tag, className |-> cls, textContent |-> text, children |-> kids]

\* The target element as the page delivers it.
EmptyElement == El("div", "", "", <<>>)

\* Before the first render no TimeDisplay has been produced.
NoOutput == [type |-> "none"]

\* if (x): an optional text is truthy when it is given and not empty.
Truthy(v) == v.type = "string" /\ v.val # ""

\* x ?? dflt
Coalesce(v, dflt) == IF v.type \in {"undefined", "null"} THEN dflt ELSE v.val

\* String(x) of a text or a number.
ToText(v) == v.val

appendChild(parent, child) ==
  [parent EXCEPT !.children = Append(parent.children, child)]

\* Variant of renderUnified that paints the suffix before the value.
renderUnified_suffixFirst(d, container) ==
  LET main0 == El("div", "display__main", "", <<>>)
      main1 == IF Truthy(d.prefix)
               THEN appendChild(main0, El("span", "display__prefix", d.prefix.val, <<>>))
               ELSE main0
      main2 == IF Truthy(d.suffix)
               THEN appendChild(main1, El("span", "display__suffix", d.suffix.val, <<>>))
               ELSE main1
      main3 == appendChild(main2, El("span", "display__value", d.value, <<>>))
      c1 == appendChild(container, main3)
      c2 == IF Truthy(d.label)
            THEN appendChild(c1, El("div", "display__label", d.label.val, <<>>))
            ELSE c1
  IN IF Truthy(d.sublabel)
     THEN appendChild(c2, El("div", "display__sublabel", d.sublabel.val, <<>>))
     ELSE c2

\* renderer.ts:25-63
renderUnified(d, container) ==
  LET main0 == El("div", "display__main", "", <<>>)
      main1 == IF Truthy(d.prefix)
               THEN appendChild(main0, El("span", "display__prefix", d.prefix.val, <<>>))
               ELSE main0
      main2 == appendChild(main1, El("span", "display__value", d.value, <<>>))
      main3 == IF Truthy(d.suffix)
               THEN appendChild(main2, El("span", "display__suffix", d.suffix.val, <<>>))
               ELSE main2
      c1 == appendChild(container, main3)
      c2 == IF Truthy(d.label)
            THEN appendChild(c1, El("div", "display__label", d.label.val, <<>>))
            ELSE c1
  IN IF Truthy(d.sublabel)
     THEN appendChild(c2, El("div", "display__sublabel", d.sublabel.val, <<>>))
     ELSE c2

\* renderer.ts:92  the default separator, a bullet (U+2022) between spaces.
DefaultSplitSeparator == " \\u2022 "

\* renderer.ts:106
DefaultSegmentSeparator == ":"

\* Variant of renderSplit that falls back to the default separator with ||
\* instead of ??.
renderSplit_orDefault(d, container) ==
  LET dateEl0 == El("div", "display__date", d.date.formatted, <<>>)
      dateEl == IF Truthy(d.date.era)
                THEN appendChild(dateEl0, El("span", "display__era", " " \o d.date.era.val, <<>>))
                ELSE dateEl0
      timeEl0 == El("div", "display__time", d.time.formatted, <<>>)
      timeEl == IF Truthy(d.time.period)
                THEN appendChild(timeEl0,
                                 El("span", "display__period", " " \o d.time.period.val, <<>>))
                ELSE timeEl0
      c1 == appendChild(container, dateEl)
      sep == El("span", "display__separator",
                IF Truthy(d.separator) THEN d.separator.val ELSE DefaultSplitSeparator, <<>>)
      c2 == appendChild(c1, sep)
  IN appendChild(c2, timeEl)

\* renderer.ts:65-96
renderSplit(d, container) ==
  LET dateEl0 == El("div", "display__date", d.date.formatted, <<>>)
      dateEl == IF Truthy(d.date.era)
                THEN appendChild(dateEl0, El("span", "display__era", " " \o d.date.era.val, <<>>))
                ELSE dateEl0
      timeEl0 == El("div", "display__time", d.time.formatted, <<>>)
      timeEl == IF Truthy(d.time.period)
                THEN appendChild(timeEl0,
                                 El("span", "display__period", " " \o d.time.period.val, <<>>))
                ELSE timeEl0
      c1 == appendChild(container, dateEl)
      sep == El("span", "display__separator", Coalesce(d.separator, DefaultSplitSeparator), <<>>)
      c2 == appendChild(c1, sep)
  IN appendChild(c2, timeEl)

\* Variant of SegmentsFrom that puts a separator before every segment, the
\* first included.
RECURSIVE SegmentsFrom_sepAlways(_, _, _)
SegmentsFrom_sepAlways(d, i, segments) ==
  IF i > Len(d.segments) THEN segments
  ELSE LET seg == d.segments[i]
           s1 == appendChild(segments,
                             El("span", "display__seg-separator",
                                Coalesce(d.separator, ":"), <<>>))
           segEl0 == El("div", "display__segment", "", <<>>)
           segEl1 == appendChild(segEl0, El("span", "display__seg-value", seg.value.val, <<>>))
           segEl2 == appendChild(segEl1, El("span", "display__seg-label", seg.label, <<>>))
       IN SegmentsFrom_sepAlways(d, i + 1, appendChild(s1, segEl2))

\* renderer.ts:102-124  the forEach callback for segment i (1-based here,
\* so the code's i > 0 is i > 1).
RECURSIVE SegmentsFrom(_, _, _)
SegmentsFrom(d, i, segments) ==
  IF i > Len(d.segments) THEN segments
  ELSE LET seg == d.segments[i]
           s1 == IF i > 1
                 THEN appendChild(segments,
                                  El("span", "display__seg-separator",
                                     Coalesce(d.separator, DefaultSegmentSeparator), <<>>))
                 ELSE segments
           segEl0 == El("div", "display__segment", "", <<>>)
           segEl1 == appendChild(segEl0, El("span", "display__seg-value", ToText(seg.value), <<>>))
           segEl2 == appendChild(segEl1, El("span", "display__seg-label", seg.label, <<>>))
       IN SegmentsFrom(d, i + 1, appendChild(s1, segEl2))

\* renderer.ts:98-127
renderSegmented(d, container) ==
  appendChild(container, SegmentsFrom(d, 1, El("div", "display__segments", "", <<>>)))

\* Variant of render that paints without clearing the target first.
render_noClear(d, container) ==
  LET c0 == [container EXCEPT !.className = "display display--" \o d.type]
  IN CASE d.type = "unified" -> renderUnified(d, c0)
       [] d.type = "split" -> renderSplit(d, c0)
       [] d.type = "segmented" -> renderSegmented(d, c0)
       [] OTHER -> c0

\* renderer.ts:8-23  innerHTML = '' drops the children and the text.
render(d, container) ==
  LET c0 == [container EXCEPT !.children = <<>>, !.textContent = "",
                              !.className = "display display--" \o d.type]
  IN CASE d.type = "unified" -> renderUnified(d, c0)
       [] d.type = "split" -> renderSplit(d, c0)
       [] d.type = "segmented" -> renderSegmented(d, c0)
       [] OTHER -> c0

\* Optional texts a display may carry: absent, empty, or some text.
OptText(t) == {Undef, Str(""), Str(t)}

UnifiedDisplays ==
  {[type |-> "unified", value |-> v, prefix |-> p, suffix |-> s,
    label |-> l, sublabel |-> sl] :
     v \in {"42", "086.400"}, p \in OptText("@"), s \in OptText(" ks"),
     l \in OptText("widgets"), sl \in OptText("Day 1 of 2026")}

SplitDisplays ==
  {[type |-> "split",
    date |-> [formatted |-> "1 Brumaire", era |-> e],
    time |-> [formatted |-> "4:16:66", period |-> p],
    separator |-> sep] :
     e \in OptText("CE"), p \in OptText("PM"), sep \in OptText(" - ")}

Segments ==
  {[value |-> Str("10"), label |-> "hours"], [value |-> Num("45"), label |-> "minutes"]}

SegmentedDisplays ==
  {[type |-> "segmented", segments |-> segs, separator |-> sep] :
     segs \in SeqsUpTo(Segments, MaxSegments), sep \in OptText(".")}

Displays == UnifiedDisplays \cup SplitDisplays \cup SegmentedDisplays

\* A caller renders a display into the target.
Render ==
  /\ \E d \in Displays :
       /\ output' = d
       /\ replaced' = display.className
       /\ display' = render(d, display)
  /\ UNCHANGED <<provVars, regVars, ret, held, hostVars>>

-----------------------------------------------------------------------------
(* Numbers.  The visual renderer computes with JavaScript numbers; the     *)
(* model computes with exact rationals [n, d], d > 0, in lowest terms.     *)

Abs(x) == IF x < 0 THEN -x ELSE x

RECURSIVE GCD(_, _)
GCD(a, b) == IF b = 0 THEN a ELSE GCD(b, a % b)

Q(n, d) ==
  LET g == GCD(Abs(n), Abs(d))
      sgn == IF d < 0 THEN -1 ELSE 1
  IN [n |-> sgn * (n \div g), d |-> sgn * (d \div g)]

QInt(i) == [n |-> i, d |-> 1]

QDiv(a, b) == Q(a.n * b.d, a.d * b.n)

QMul(a, b) == Q(a.n * b.n, a.d * b.d)

QSub(a, b) == Q(a.n * b.d - b.n * a.d, a.d * b.d)

QLeq(a, b) == a.n * b.d <= b.n * a.d

\* Math.min
QMin(a, b) == IF QLeq(a, b) THEN a ELSE b

-----------------------------------------------------------------------------
(* visual-renderer.ts *)

\* visual-renderer.ts:8
VISUAL_SIZE == 120

\* visual-renderer.ts:9
STROKE_WIDTH == 4

\* An SVG element: its class tokens, the numeric attributes set on it and
\* its children.  Of the attributes the code sets, the model keeps the ones
\* that carry geometry: width, stroke-dasharray and stroke-dashoffset (both
\* in units of the ring's circumference), and for a line the pair "angle"
\* (degrees) and "length" (in units of the face radius), which stand for the
\* end point (center + length * cos, center + length * sin) the code writes
\* to x1/y1/x2/y2.
Svg(tag, classes, attrs, kids) ==
  [tag |-> tag, className |-> classes, attrs |-> attrs, children |-> kids]

NoAttrs == [a \in {} |-> QInt(0)]

setAttribute(el, name, v) ==
  [el EXCEPT !.attrs = [a \in (DOMAIN el.attrs) \cup {name} |->
                          IF a = name THEN v ELSE el.attrs[a]]]

\* The #time-visual element as the page delivers it.
EmptyVisual == [children |-> <<>>]

\* querySelector('.cls') over a sequence of elements: the position of the
\* first one that carries the class, or 0 for null.
QueryIndex(kids, cls) ==
  IF \E i \in 1..Len(kids) : cls \in kids[i].className
  THEN CHOOSE i \in 1..Len(kids) :
         /\ cls \in kids[i].className
         /\ \A j \in 1..(i - 1) : cls \notin kids[j].className
  ELSE 0

\* Variant of Progress without the upper clamp.
Progress_noClamp(value, max) == QDiv(value, max)

\* Math.min(value / visual.max, 1)
Progress(value, max) == QMin(QDiv(value, max), QInt(1))

\* visual-renderer.ts:39-63
BarScaffold ==
  Svg("svg", {"visual__svg", "visual__svg--bar"}, NoAttrs,
      <<setAttribute(Svg("rect", {"visual__track"}, NoAttrs, <<>>),
                     "width", QInt(VISUAL_SIZE)),
        Svg("rect", {"visual__fill"}, NoAttrs, <<>>)>>)

\* visual-renderer.ts:83-113
RingScaffold ==
  Svg("svg", {"visual__svg", "visual__svg--ring"}, NoAttrs,
      <<Svg("circle", {"visual__track"}, NoAttrs, <<>>),
        setAttribute(Svg("circle", {"visual__fill"}, NoAttrs, <<>>),
                     "stroke-dasharray", QInt(1))>>)

\* Variant of Marker that starts one division after the reference.
Marker_shifted(i, divisions) ==
  setAttribute(Svg("line", {"visual__marker"}, NoAttrs, <<>>), "angle",
               QSub(QMul(QDiv(QInt(i + 1), QInt(divisions)), QInt(360)), QInt(90)))

\* visual-renderer.ts:148-163  marker i of the face.
Marker(i, divisions) ==
  setAttribute(Svg("line", {"visual__marker"}, NoAttrs, <<>>), "angle",
               QSub(QMul(QDiv(QInt(i), QInt(divisions)), QInt(360)), QInt(90)))

\* visual-renderer.ts:132-202  the second hand is created only when the
\* hands of the building call carry a second.
ClockScaffold(divisions, hands) ==
  Svg("svg", {"visual__svg", "visual__svg--clock"}, NoAttrs,
      <<Svg("circle", {"visual__face"}, NoAttrs, <<>>)>>
        \o [i \in 1..divisions |-> Marker(i - 1, divisions)]
        \o <<Svg("line", {"visual__hand", "visual__hand--hour"}, NoAttrs, <<>>),
             Svg("line", {"visual__hand", "visual__hand--minute"}, NoAttrs, <<>>)>>
        \o (IF hands.hasSecond
            THEN <<Svg("line", {"visual__hand", "visual__hand--second"}, NoAttrs, <<>>)>>
            ELSE <<>>)
        \o <<Svg("circle", {"visual__center"}, NoAttrs, <<>>)>>)

\* Variant of WithScaffold that builds and appends a scaffold on every call.
WithScaffold_always(container, scaffold) ==
  [container EXCEPT !.children = Append(@, scaffold)]

\* The svg the render functions work on: the one already under the
\* container, or else the scaffold they build and append.
WithScaffold(container, scaffold) ==
  IF QueryIndex(container.children, "visual__svg") = 0
  THEN [container EXCEPT !.children = Append(@, scaffold)]
  ELSE container

\* el.querySelector(cls).setAttribute(...) on the container's svg: a
\* TypeError when the svg holds no element of that class.
SetOnSvgChild(r, cls, name, v) ==
  LET si == QueryIndex(r.container.children, "visual__svg")
      svg == r.container.children[si]
      ci == QueryIndex(svg.children, cls)
  IN IF r.threw THEN r
     ELSE IF ci = 0 THEN [r EXCEPT !.threw = TRUE]
     ELSE [r EXCEPT !.container.children[si].children[ci] =
                      setAttribute(svg.children[ci], name, v)]

\* visual-renderer.ts:29-68
renderProgressBar(visual, date, container) ==
  LET progress == Progress(visual.getValue[date], visual.max)
      r0 == [container |-> WithScaffold(container, BarScaffold), threw |-> FALSE]
  IN SetOnSvgChild(r0, "visual__fill", "width", QMul(progress, QInt(VISUAL_SIZE)))

\* Variant of renderProgressRing that writes the progress itself as the
\* dash offset.
renderProgressRing_offsetIsProgress(visual, date, container) ==
  LET progress == Progress(visual.getValue[date], visual.max)
      r0 == [container |-> WithScaffold(container, RingScaffold), threw |-> FALSE]
  IN SetOnSvgChild(r0, "visual__fill", "stroke-dashoffset", progress)

\* visual-renderer.ts:70-119
renderProgressRing(visual, date, container) ==
  LET progress == Progress(visual.getValue[date], visual.max)
      r0 == [container |-> WithScaffold(container, RingScaffold), threw |-> FALSE]
  IN SetOnSvgChild(r0, "visual__fill", "stroke-dashoffset", QSub(QInt(1), progress))

\* (x / scale) * 360 - 90
HandAngle(x, scale) == QSub(QMul(QDiv(x, scale), QInt(360)), QInt(90))

\* visual-renderer.ts:227-231  a missing second hand is skipped, not an error.
SetSecondHand(r, hands) ==
  LET si == QueryIndex(r.container.children, "visual__svg")
      svg == r.container.children[si]
      ci == QueryIndex(svg.children, "visual__hand--second")
  IN IF r.threw \/ ~hands.hasSecond \/ ci = 0 THEN r
     ELSE SetOnSvgChild(
            SetOnSvgChild(r, "visual__hand--second", "angle",
                          HandAngle(hands.second, QInt(100))),
            "visual__hand--second", "length", Q(8, 10))

\* Variant of renderClock that scales the minute hand by divisions, as it
\* does the hour hand.
renderClock_minuteByDivisions(visual, date, container) ==
  LET hands == visual.getHands[date]
      r0 == [container |-> WithScaffold(container, ClockScaffold(visual.divisions, hands)),
             threw |-> FALSE]
      r1 == SetOnSvgChild(r0, "visual__hand--hour", "angle",
                          HandAngle(hands.hour, QInt(visual.divisions)))
      r2 == SetOnSvgChild(r1, "visual__hand--hour", "length", Q(5, 10))
      r3 == SetOnSvgChild(r2, "visual__hand--minute", "angle",
                          HandAngle(hands.minute, QInt(visual.divisions)))
      r4 == SetOnSvgChild(r3, "visual__hand--minute", "length", Q(7, 10))
  IN SetSecondHand(r4, hands)

\* visual-renderer.ts:121-233
renderClock(visual, date, container) ==
  LET hands == visual.getHands[date]
      r0 == [container |-> WithScaffold(container, ClockScaffold(visual.divisions, hands)),
             threw |-> FALSE]
      r1 == SetOnSvgChild(r0, "visual__hand--hour", "angle",
                          HandAngle(hands.hour, QInt(visual.divisions)))
      r2 == SetOnSvgChild(r1, "visual__hand--hour", "length", Q(5, 10))
      r3 == SetOnSvgChild(r2, "visual__hand--minute", "angle",
                          HandAngle(hands.minute, QInt(100)))
      r4 == SetOnSvgChild(r3, "visual__hand--minute", "length", Q(7, 10))
  IN SetSecondHand(r4, hands)

\* visual-renderer.ts:11-27  The result is the container after the call and
\* whether the call threw; a visual whose getValue or getHands throws does
\* so before the container is touched.
renderVisual(visual, date, container) ==
  IF visual.throws THEN [container |-> container, threw |-> TRUE]
  ELSE CASE visual.type = "progress-bar" -> renderProgressBar(visual, date, container)
         [] visual.type = "progress-ring" -> renderProgressRing(visual, date, container)
         [] visual.type = "clock" -> renderClock(visual, date, container)
         [] OTHER -> [container |-> container, threw |-> FALSE]

\* Variant of clearVisual that empties the svg and leaves it in place.
clearVisual_emptiesSvg(container) ==
  LET si == QueryIndex(container.children, "visual__svg")
  IN IF si = 0 THEN container
     ELSE [container EXCEPT !.children[si].children = <<>>]

\* visual-renderer.ts:235-240  svg.remove() on the first svg, if any.
clearVisual(container) ==
  LET si == QueryIndex(container.children, "visual__svg")
  IN IF si = 0 THEN container
     ELSE [container EXCEPT !.children =
             [i \in 1..(Len(@) - 1) |-> IF i < si THEN @[i] ELSE @[i + 1]]]

\* The class tokens of the svg a call finds under the container, {} when
\* it finds none.
ScaffoldOf(container) ==
  LET si == QueryIndex(container.children, "visual__svg")
  IN IF si = 0 THEN {} ELSE container.children[si].className

NoVisualCall ==
  [fn |-> "none", visual |-> NoVisual, date |-> 0, threw |-> FALSE, onto |-> {}]

\* renderVisual(visual, date, container) as a step that leaves its record.
renderVisualCall(visual, date, container) ==
  [fn |-> "renderVisual", visual |-> visual, date |-> date,
   threw |-> renderVisual(visual, date, container).threw,
   onto |-> ScaffoldOf(container)]

\* clearVisual(container) as a step that leaves its record.
clearVisualCall(container) ==
  [fn |-> "clearVisual", visual |-> NoVisual, date |-> 0, threw |-> FALSE,
   onto |-> ScaffoldOf(container)]

\* Instants a call may be given.
Instants == 0..MaxNow

\* getValue functions: a + b * t at instant t.
LinearValue(a, b) == [t \in Instants |-> QInt(a + b * t)]

\* Progress bars: values below zero, inside the range, at max and above it;
\* the last one has the max of the kiloseconds provider, 86.4.
BarVisuals ==
  {[type |-> "progress-bar", throws |-> FALSE, max |-> QInt(100),
    getValue |-> LinearValue(a, b)] : a \in {-25, 50}, b \in {0, 50, 100}}
  \cup {[type |-> "progress-bar", throws |-> FALSE, max |-> Q(432, 5),
         getValue |-> LinearValue(0, 54)]}

RingVisuals ==
  {[type |-> "progress-ring", throws |-> FALSE, max |-> QInt(1000),
    getValue |-> LinearValue(a, 1000)] : a \in {0, 250}}

\* getHands functions: hour 3 and minute 0 at instant 0, moving on by 3
\* hours and 25 hundredths per instant; second says at which instants the
\* hands carry a second ("always", "never", or at the even instants only).
HandsAt(second) ==
  [t \in Instants |->
     [hour |-> QInt(3 + 3 * t), minute |-> QInt(25 * t), second |-> QInt(10 + 50 * t),
      hasSecond |-> CASE second = "always" -> TRUE
                      [] second = "never" -> FALSE
                      [] OTHER -> t % 2 = 0]]

ClockVisuals ==
  {[type |-> "clock", throws |-> FALSE, divisions |-> d, getHands |-> HandsAt(s)] :
     d \in {12, 10}, s \in {"always", "never", "even"}}

\* A visual whose getValue throws.
ThrowingVisual ==
  [type |-> "progress-bar", throws |-> TRUE, max |-> QInt(100),
   getValue |-> LinearValue(0, 0)]

Visuals == BarVisuals \cup RingVisuals \cup ClockVisuals \cup {ThrowingVisual}

\* A caller renders a visual into the target.
CallRenderVisual ==
  /\ \E visual \in Visuals, date \in Instants :
       /\ visualContainer' = renderVisual(visual, date, visualContainer).container
       /\ visualCall' = renderVisualCall(visual, date, visualContainer)
  /\ UNCHANGED <<provVars, regVars, ret, domVars, held, hostStatus, currentSystem, tickHandle,
                 timers, nextHandle, storage, selector, learnMoreLink>>

\* A caller clears the target.
CallClearVisual ==
  /\ visualContainer' = clearVisual(visualContainer)
  /\ visualCall' = clearVisualCall(visualContainer)
  /\ UNCHANGED <<provVars, regVars, ret, domVars, held, hostStatus, currentSystem, tickHandle,
                 timers, nextHandle, storage, selector, learnMoreLink>>

-----------------------------------------------------------------------------
(* The host application: src/unnamed/part_005 *)

\* What a provider's format returns for an instant, by the variant it
\* produces.
format(p, now) ==
  CASE p.formatBody = "unified" ->
         [type |-> "unified", value |-> ToString(now), prefix |-> Str("@"),
          suffix |-> Undef, label |-> Str(p.id.val), sublabel |-> Undef]
    [] p.formatBody = "split" ->
         [type |-> "split",
          date |-> [formatted |-> "Wednesday, November 4, 2026", era |-> Str("CE")],
          time |-> [formatted |-> ToString(now), period |-> Undef],
          separator |-> Undef]
    [] OTHER ->
         [type |-> "segmented",
          segments |-> <<[value |-> Num(ToString(now)), label |-> "beats"]>>,
          separator |-> Undef]

\* The providers the host is run with.
ClockVisual ==
  [type |-> "clock", throws |-> FALSE, divisions |-> 12,
   getHands |-> [t \in Instants |->
                   [hour |-> QInt(3 * t), minute |-> QInt(25 * t),
                    second |-> QInt(50 * t), hasSecond |-> TRUE]]]

BarVisual ==
  [type |-> "progress-bar", throws |-> FALSE, max |-> QInt(100),
   getValue |-> [t \in Instants |-> QInt(50 * t)]]

HostProvider(id, body, interval, url, visual) ==
  [Provider(id) EXCEPT !.formatBody = body, !.tickInterval = interval,
                       !.learnMoreUrl = url, !.visual = visual]

HostCandidates ==
  {HostProvider("standard", "split", Num("1000"),
                Str("https://en.wikipedia.org/wiki/Gregorian_calendar"), ClockVisual),
   HostProvider("epoch-seconds", "unified", Undef, Undef, NoVisual),
   HostProvider("kiloseconds", "unified", Num("864"),
                Str("https://en.wikipedia.org/wiki/Metric_time"), BarVisual),
   HostProvider("holocene", "throws", Num("1000"), Undef, NoVisual),
   Obj(Str("swatch-beats"), Str("name"), Str("description"), Undef)}

\* localStorage.getItem: null when the key was never written.
Null == [type |-> "null", val |-> ""]

StoredValues ==
  {Null, Str(""), Str("standard"), Str("kiloseconds"), Str("stardate")}

\* Values a change event of the selector can carry.
SwitchIds == {"standard", "epoch-seconds", "kiloseconds", "holocene", "stardate"}

\* The host's mutable state as one value, for the functions that are called
\* from more than one place.
HostState ==
  [currentSystem |-> currentSystem, tickHandle |-> tickHandle, timers |-> timers,
   nextHandle |-> nextHandle, storage |-> storage, learnMoreLink |-> learnMoreLink,
   visualContainer |-> visualContainer, display |-> display, output |-> output,
   replaced |-> replaced, visualCall |-> visualCall, threw |-> FALSE]

Commit(h) ==
  /\ currentSystem' = h.currentSystem
  /\ tickHandle' = h.tickHandle
  /\ timers' = h.timers
  /\ nextHandle' = h.nextHandle
  /\ storage' = h.storage
  /\ learnMoreLink' = h.learnMoreLink
  /\ visualContainer' = h.visualContainer
  /\ display' = h.display
  /\ output' = h.output
  /\ replaced' = h.replaced
  /\ visualCall' = h.visualCall

\* part_005:31-33  the visual step of tick.
tickVisual(h, p, now) ==
  IF p.visual.type = "undefined" THEN h
  ELSE LET rv == renderVisual(p.visual, now, h.visualContainer)
       IN [h EXCEPT !.visualContainer = rv.container, !.threw = rv.threw,
                    !.visualCall = renderVisualCall(p.visual, now, h.visualContainer)]

\* part_005:26-34  Reading .format of an undefined currentSystem is a
\* TypeError; an exception of format leaves the display as it was.
tick(h, now) ==
  IF h.currentSystem = UndefinedRef THEN [h EXCEPT !.threw = TRUE]
  ELSE LET p == systems[h.currentSystem]
       IN IF p.formatBody = "throws" THEN [h EXCEPT !.threw = TRUE]
          ELSE tickVisual([h EXCEPT !.output = format(p, now),
                                    !.replaced = h.display.className,
                                    !.display = render(format(p, now), h.display)],
                          p, now)

\* Variant of updateLearnMoreLink without the else branch.
updateLearnMoreLink_noHide(h) ==
  LET p == systems[h.currentSystem]
  IN IF Truthy(p.learnMoreUrl)
     THEN [h EXCEPT !.learnMoreLink = [href |-> p.learnMoreUrl.val, display |-> ""]]
     ELSE h

\* part_005:36-43
updateLearnMoreLink(h) ==
  LET p == systems[h.currentSystem]
  IN IF Truthy(p.learnMoreUrl)
     THEN [h EXCEPT !.learnMoreLink = [href |-> p.learnMoreUrl.val, display |-> ""]]
     ELSE [h EXCEPT !.learnMoreLink.display = "none"]

\* Variant of clearInterval that cancels nothing.
clearInterval_noop(ts, handle) == ts

\* clearInterval: undefined or a handle that is not armed clears nothing.
clearInterval(ts, handle) == {t \in ts : t.handle # handle}

\* window.setInterval(tick, interval)
setInterval(h, interval) ==
  [h EXCEPT !.tickHandle = h.nextHandle,
            !.timers = @ \cup {[handle |-> h.nextHandle, interval |-> interval]},
            !.nextHandle = @ + 1]

\* Variant of IntervalOf that ignores the provider's tickInterval.
IntervalOf_default(p) == "1000"

\* tickInterval ?? 1000
IntervalOf(p) == Coalesce(p.tickInterval, "1000")

\* Variant of switchTo without the clearVisual call of line 50.
switchTo_noClear(h, id, sys, now) ==
  LET h2 == [h EXCEPT !.currentSystem = sys]
      h3 == [h2 EXCEPT !.timers = clearInterval(@, h2.tickHandle)]
      h4 == tick(h3, now)
      h5 == setInterval(h4, IntervalOf(systems[sys]))
      h6 == updateLearnMoreLink(h5)
  IN IF h4.threw THEN h4
     ELSE [h6 EXCEPT !.storage = Str(id)]

\* Variant of switchTo that writes the preference before it ticks.
switchTo_storeFirst(h, id, sys, now) ==
  LET h1 == [h EXCEPT !.visualContainer = clearVisual(@),
                      !.visualCall = clearVisualCall(h.visualContainer),
                      !.storage = Str(id)]
      h2 == [h1 EXCEPT !.currentSystem = sys]
      h3 == [h2 EXCEPT !.timers = clearInterval(@, h2.tickHandle)]
      h4 == tick(h3, now)
      h5 == setInterval(h4, IntervalOf(systems[sys]))
  IN IF h4.threw THEN h4 ELSE updateLearnMoreLink(h5)

\* part_005:48-58  switchSystem once the lookup has succeeded.
switchTo(h, id, sys, now) ==
  LET h1 == [h EXCEPT !.visualContainer = clearVisual(@), !.visualCall = clearVisualCall(h.visualContainer)]
      h2 == [h1 EXCEPT !.currentSystem = sys]
      h3 == [h2 EXCEPT !.timers = clearInterval(@, h2.tickHandle)]
      h4 == tick(h3, now)
      h5 == setInterval(h4, IntervalOf(systems[sys]))
      h6 == updateLearnMoreLink(h5)
  IN IF h4.threw THEN h4
     ELSE [h6 EXCEPT !.storage = Str(id)]

\* Variant of switchSystem without the early return of line 47.
switchSystem_noGuard(h, id, now) ==
  LET sys == getSystem(registry, id)
      h1 == [h EXCEPT !.visualContainer = clearVisual(@), !.visualCall = clearVisualCall(h.visualContainer)]
      h2 == [h1 EXCEPT !.currentSystem = sys]
      h3 == [h2 EXCEPT !.timers = clearInterval(@, h2.tickHandle)]
  IN IF sys = UndefinedRef THEN tick(h3, now) ELSE switchTo(h, id, sys, now)

\* part_005:45-59
switchSystem(h, id, now) ==
  LET sys == getSystem(registry, id)
  IN IF sys = UndefinedRef THEN h ELSE switchTo(h, id, sys, now)

\* part_005:14-24  A select element shows its first option until a value is
\* set, and "" when it has no option.
populateSelector(sel) ==
  LET refs == getAllSystems(registry).refs
      options == sel.options \o
                   [i \in 1..Len(refs) |->
                      [value |-> systems[refs[i]].id.val,
                       textContent |-> systems[refs[i]].name.val,
                       title |-> systems[refs[i]].description.val]]
  IN [options |-> options,
      value |-> IF Len(options) = 0 THEN "" ELSE options[1].value]

OptionValues(sel) == {sel.options[i].value : i \in 1..Len(sel.options)}

\* part_005:1-12  the registry module is imported, then currentSystem is
\* initialised.  When the registry module threw, the import fails and the
\* main module never runs.
HostLoad ==
  /\ regStatus = "loaded"
  /\ hostStatus = "unloaded"
  /\ currentSystem' = getDefaultSystem(registry)
  /\ hostStatus' = "loaded"
  /\ ret' = [fn |-> "getDefaultSystem", arg |-> "",
             refs |-> <<getDefaultSystem(registry)>>, fresh |-> TRUE]
  /\ UNCHANGED <<provVars, regVars, domVars, held, tickHandle, timers, nextHandle, storage,
                 selector, learnMoreLink, visualContainer, visualCall>>

\* part_005:61-79  init().  An exception that escapes it ends the module
\* body before the change listener is added.
HostInit ==
  /\ hostStatus = "loaded"
  /\ \E now \in Instants :
       LET saved == storage
           h == IF Truthy(saved) /\ getSystem(registry, saved.val) # UndefinedRef
                THEN switchSystem(HostState, saved.val, now)
                ELSE LET h1 == tick(HostState, now)
                     IN IF h1.threw THEN h1
                        ELSE updateLearnMoreLink(
                               setInterval(h1, IntervalOf(systems[h1.currentSystem])))
       IN /\ Commit(h)
          /\ selector' =
               IF Truthy(saved) /\ getSystem(registry, saved.val) # UndefinedRef
               THEN [populateSelector(selector) EXCEPT !.value = saved.val]
               ELSE populateSelector(selector)
          /\ hostStatus' = IF h.threw THEN "crashed" ELSE "running"
          /\ ret' = [fn |-> "init", arg |-> IF h.threw THEN "threw" ELSE "", refs |-> <<>>,
                     fresh |-> TRUE]
  /\ UNCHANGED <<provVars, regVars, held>>

\* An armed interval fires and runs tick.  An exception of tick is reported
\* by the browser; the interval stays armed.
TimerTick ==
  /\ timers # {}
  /\ \E now \in Instants :
       LET h == tick(HostState, now)
       IN /\ Commit(h)
          /\ ret' = [fn |-> "tick", arg |-> IF h.threw THEN "threw" ELSE "", refs |-> <<>>,
                     fresh |-> TRUE]
  /\ UNCHANGED <<provVars, regVars, held, hostStatus, selector>>

\* part_005:74-76  a change event arrives with the value id.  The selector
\* shows id when it is one of its options; a value that is no option (a
\* stale or foreign one) leaves the selection as it is.
OnChange ==
  /\ hostStatus = "running"
  /\ nextHandle <= MaxTimers
  /\ \E id \in SwitchIds, now \in Instants :
       LET h == switchSystem(HostState, id, now)
       IN /\ Commit(h)
          /\ selector' = IF id \in OptionValues(selector)
                         THEN [selector EXCEPT !.value = id] ELSE selector
          /\ ret' = [fn |-> "switchSystem", arg |-> id, refs |-> <<>>, fresh |-> TRUE]
  /\ UNCHANGED <<provVars, regVars, held, hostStatus>>

NoSelector == [options |-> <<>>, value |-> ""]

\* The link as the page delivers it.
InitialLink == [href |-> "", display |-> ""]

\* The host's variables before the main module runs.
HostUnloaded ==
  /\ hostStatus = "unloaded"
  /\ currentSystem = UndefinedRef
  /\ tickHandle = UndefinedRef
  /\ timers = {}
  /\ nextHandle = 1
  /\ selector = NoSelector
  /\ learnMoreLink = InitialLink
  /\ visualContainer = EmptyVisual
  /\ visualCall = NoVisualCall
  /\ held = NoArray

-----------------------------------------------------------------------------
(* Dates.  A Date is its time value (milliseconds since 1970-01-01T00:00Z) *)
(* together with the zone of the host it lives on, given as the value      *)
(* getTimezoneOffset() returns there: minutes, UTC minus local time.  A    *)
(* time value is wider than 32-bit integers, so it is kept here as         *)
(* whole days and milliseconds of the day: [day, ms] is day * msPerDay +   *)
(* ms with ms in 0..msPerDay-1.                                            *)

\* part_003:73
msPerDay == 86400000

QAdd(a, b) == Q(a.n * b.d + b.n * a.d, a.d * b.d)

\* Hosts on UTC, on Central European Time, on US Eastern Standard Time and
\* on India Standard Time.
TimezoneOffsets == {0, -60, 300, -330}

\* The time value day * msPerDay + ms, for any integer ms.
TimeValue(day, ms) == [day |-> day + (ms \div msPerDay), ms |-> ms % msPerDay]

\* t + k and a - b on time values.
PlusMs(t, k) == TimeValue(t.day, t.ms + k)

MinusTime(a, b) == TimeValue(a.day - b.day, a.ms - b.ms)

\* The local time value the local getters read.
LocalTime(d) == PlusMs(d.time, 0 - d.tzOffset * 60000)

getHours(d) == (LocalTime(d).ms \div 3600000) % 24

getMinutes(d) == (LocalTime(d).ms \div 60000) % 60

getSeconds(d) == (LocalTime(d).ms \div 1000) % 60

\* No provider function has been given a date, none has returned, and
\* gregorianToRepublican has not been entered.
NoDate == [time |-> TimeValue(0, 0), tzOffset |-> 0]

NoResult == [fn |-> ""]

NoRep == [pc |-> "idle", remainingDays |-> 0, year |-> 0]

ProvidersIdle ==
  /\ dateArg = NoDate
  /\ result = NoResult
  /\ rep = NoRep

-----------------------------------------------------------------------------
(* systems/standard.ts *)

\* Hours are not reduced to 0..11.
getHands_hours24(d) ==
  LET hours == getHours(d)
      minutes == getMinutes(d)
      seconds == getSeconds(d)
  IN [hour |-> QAdd(QInt(hours), QDiv(QInt(minutes), QInt(60))),
      minute |-> QMul(QAdd(QInt(minutes), QDiv(QInt(seconds), QInt(60))),
                      QDiv(QInt(100), QInt(60))),
      second |-> QMul(QInt(seconds), QDiv(QInt(100), QInt(60))),
      hasSecond |-> TRUE]

\* standard.ts:14-23
getHands(d) ==
  LET hours == getHours(d) % 12
      minutes == getMinutes(d)
      seconds == getSeconds(d)
  IN [hour |-> QAdd(QInt(hours), QDiv(QInt(minutes), QInt(60))),
      minute |-> QMul(QAdd(QInt(minutes), QDiv(QInt(seconds), QInt(60))),
                      QDiv(QInt(100), QInt(60))),
      second |-> QMul(QInt(seconds), QDiv(QInt(100), QInt(60))),
      hasSecond |-> TRUE]

\* The renderer asks the standard provider for its hands.
CallGetHands ==
  /\ result.fn = ""
  /\ result' = [fn |-> "getHands", hands |-> getHands(dateArg)]
  /\ UNCHANGED <<regVars, ret, domVars, held, hostVars, dateArg, rep>>

-----------------------------------------------------------------------------
(* systems/swatch-beats.ts *)

DecimalDigits == <<"0", "1", "2", "3", "4", "5", "6", "7", "8", "9">>

\* Number.prototype.toString of a non-negative integer.
RECURSIVE toString(_)
toString(n) ==
  IF n < 10 THEN DecimalDigits[n + 1]
  ELSE toString(n \div 10) \o DecimalDigits[(n % 10) + 1]

\* String.prototype.padStart with a pad of one character.
RECURSIVE padStart(_, _, _)
padStart(str, targetLength, padString) ==
  IF Len(str) >= targetLength THEN str
  ELSE padStart(padString \o str, targetLength, padString)

\* swatch-beats.ts:17-19  the time value of 00:00:00.000 UTC of the day
\* the time value t falls on.
setUTCHours0(t) == TimeValue(t.day, 0)

\* swatch-beats.ts:13-22
beats(d) ==
  LET utcMs == PlusMs(d.time, d.tzOffset * 60000)
      bielMs == PlusMs(utcMs, 3600000)
      midnight == setUTCHours0(bielMs)
      msIntoDay == MinusTime(bielMs, midnight)
  IN (msIntoDay.day * msPerDay + msIntoDay.ms) \div 86400

\* swatch-beats.ts:11-31
swatchBeatsFormat(d) ==
  [type |-> "unified", prefix |-> Str("@"),
   value |-> padStart(toString(beats(d)), 3, "0"),
   suffix |-> Undef, label |-> Str(".beats"),
   sublabel |-> Str("No time zones. @000 = midnight in Biel.")]

\* The host formats a date with the swatch-beats provider.
CallSwatchFormat ==
  /\ result.fn = ""
  /\ result' = [fn |-> "swatchBeats.format", display |-> swatchBeatsFormat(dateArg)]
  /\ UNCHANGED <<regVars, ret, domVars, held, hostVars, dateArg, rep>>

-----------------------------------------------------------------------------
(* src/unnamed/part_003: the French Republican provider.  The names are    *)
(* written without their accents.                                          *)

\* part_003:3-16
MONTHS ==
  <<"Vendemiaire", "Brumaire", "Frimaire", "Nivose", "Pluviose", "Ventose",
    "Germinal", "Floreal", "Prairial", "Messidor", "Thermidor", "Fructidor">>

\* part_003:18-25
COMPLEMENTARY ==
  <<"La Fete de la Vertu", "La Fete du Genie", "La Fete du Travail",
    "La Fete de l'Opinion", "La Fete des Recompenses", "La Fete de la Revolution">>

\* arr[i]: the element, or undefined where i is no index of the array.
At(arr, i) == IF i \in 0..(Len(arr) - 1) THEN Str(arr[i + 1]) ELSE Undef

\* `${x}` of a text or of undefined.
TemplateText(v) == IF v.type = "undefined" THEN "undefined" ELSE v.val

\* part_003:53-59
isRepublicanLeapYear(year) ==
  IF year < 3 THEN FALSE
  ELSE IF year <= 20 THEN (year - 3) % 4 = 0
  ELSE year % 4 = 0 /\ (year % 100 # 0 \/ year % 400 = 0)

\* Every year counts 365 days.
daysInYear_flat(year) == 365

\* part_003:89
daysInYear(year) == IF isRepublicanLeapYear(year) THEN 366 ELSE 365

\* part_003:72  new Date(1792, 8, 22).getTime(): midnight of 22 September
\* 1792 in the host's zone, 64748 days before 1970-01-01.
epoch(tzOffset) == TimeValue(0 - 64748, tzOffset * 60000)

\* part_003:75-77
daysSinceEpoch(d) == MinusTime(d.time, epoch(d.tzOffset)).day

\* part_003:138-143
dateStr(r) ==
  IF r.isComplementary
  THEN Coalesce(At(COMPLEMENTARY, r.day),
                "Jour complementaire " \o toString(r.day + 1))
  ELSE toString(r.day) \o " " \o TemplateText(At(MONTHS, r.month))

\* What format has of the date once gregorianToRepublican has returned r.
FormattedDate(r) == [fn |-> "decimalFrench.format", rep |-> r, dateStr |-> dateStr(r)]

\* part_003:68-86  format calls gregorianToRepublican, which returns the
\* placeholder for a date before the epoch and else enters the loop.
GregorianEnter ==
  /\ rep.pc = "idle"
  /\ LET days == daysSinceEpoch(dateArg)
     IN IF days < 0
        THEN /\ rep' = [rep EXCEPT !.pc = "returned"]
             /\ result' = FormattedDate([year |-> 0, month |-> 0, day |-> 1,
                                         isComplementary |-> FALSE])
        ELSE /\ rep' = [pc |-> "loop", remainingDays |-> days, year |-> 1]
             /\ UNCHANGED result
  /\ UNCHANGED <<regVars, ret, domVars, held, hostVars, dateArg>>

\* part_003:88-93  an iteration that does not leave the loop.
GregorianCountYear ==
  /\ rep.pc = "loop"
  /\ ~(rep.remainingDays < daysInYear(rep.year))
  /\ rep' = [rep EXCEPT !.remainingDays = @ - daysInYear(rep.year), !.year = @ + 1]
  /\ UNCHANGED <<regVars, ret, domVars, held, hostVars, dateArg, result>>

\* part_003:90, 95-110  the iteration that leaves the loop, and the return.
GregorianReturn ==
  /\ rep.pc = "loop"
  /\ rep.remainingDays < daysInYear(rep.year)
  /\ rep' = [rep EXCEPT !.pc = "returned"]
  /\ result' =
       FormattedDate(
         IF rep.remainingDays >= 360
         THEN [year |-> rep.year, month |-> -1, day |-> rep.remainingDays - 360,
               isComplementary |-> TRUE]
         ELSE [year |-> rep.year, month |-> rep.remainingDays \div 30,
               day |-> (rep.remainingDays % 30) + 1, isComplementary |-> FALSE])
  /\ UNCHANGED <<regVars, ret, domVars, held, hostVars, dateArg>>

-----------------------------------------------------------------------------
(* Specifications *)

\* The registry module on its own: population, then calls of its exports.
RegInit ==
  /\ systems \in SeqsUpTo(RegCandidates, MaxSystems)
  /\ regIdx = 1
  /\ regStatus = "loading"
  /\ registry = <<>>
  /\ warnings = <<>>
  /\ ret = NoRet
  /\ display = EmptyElement
  /\ output = NoOutput
  /\ replaced = ""
  /\ storage = Null
  /\ HostUnloaded
  /\ ProvidersIdle

RegNext ==
  \/ RegisterNext
  \/ RegisterDone
  \/ CallGetAllSystems
  \/ CallGetSystem
  \/ CallGetDefaultSystem

SpecRegistry == RegInit /\ [][RegNext]_vars

\* The renderer on its own: any sequence of render calls on one target.
RenderInit ==
  /\ systems = <<>>
  /\ regIdx = 1
  /\ regStatus = "loading"
  /\ registry = <<>>
  /\ warnings = <<>>
  /\ ret = NoRet
  /\ display = EmptyElement
  /\ output = NoOutput
  /\ replaced = ""
  /\ storage = Null
  /\ HostUnloaded
  /\ ProvidersIdle

RenderNext == Render

SpecRender == RenderInit /\ [][RenderNext]_vars

\* The visual renderer on its own: any sequence of renderVisual and
\* clearVisual calls on one target.
VisualInit == RenderInit

VisualNext ==
  \/ CallRenderVisual
  \/ CallClearVisual

SpecVisual == VisualInit /\ [][VisualNext]_vars

\* Registration lists of the host: each candidate module is imported once.
\* (Lists that repeat a candidate are those of SpecRegistry.)
HostLists ==
  {q \in SeqsUpTo(HostCandidates, MaxHostSystems) :
     \A i, j \in 1..Len(q) : i # j => q[i] # q[j]}

\* The application: the registry is populated, the main module loads and
\* runs init(), then intervals fire and change events arrive; beside it a
\* caller of the registry takes the list of providers and writes to it.
HostSpecInit ==
  /\ systems \in HostLists
  /\ regIdx = 1
  /\ regStatus = "loading"
  /\ registry = <<>>
  /\ warnings = <<>>
  /\ ret = NoRet
  /\ display = EmptyElement
  /\ output = NoOutput
  /\ replaced = ""
  /\ storage \in StoredValues
  /\ HostUnloaded
  /\ ProvidersIdle

HostNext ==
  \/ RegisterNext
  \/ RegisterDone
  \/ HostLoad
  \/ HostInit
  \/ TimerTick
  \/ OnChange
  \/ CallGetAllSystems
  \/ CallerModifies

SpecHost == HostSpecInit /\ [][HostNext]_vars

\* The standard provider's hands: a date is drawn and getHands is applied.
StandardInit ==
  /\ systems = <<>>
  /\ regIdx = 1
  /\ regStatus = "loading"
  /\ registry = <<>>
  /\ warnings = <<>>
  /\ ret = NoRet
  /\ display = EmptyElement
  /\ output = NoOutput
  /\ replaced = ""
  /\ storage = Null
  /\ HostUnloaded
  \* every second of the day around 1970-01-01T00:00Z, each 500 ms past
  \* the full second, on a host with a whole-hour zone and on one with a
  \* half-hour zone
  /\ \E s \in (0 - 43200)..43199, o \in {300, -330} :
       dateArg = [time |-> TimeValue(0, s * 1000 + 500), tzOffset |-> o]
  /\ result = NoResult
  /\ rep = NoRep

StandardNext == CallGetHands

SpecStandard == StandardInit /\ [][StandardNext]_vars

\* The swatch-beats provider: a date is drawn and format is applied.
SwatchInit ==
  /\ systems = <<>>
  /\ regIdx = 1
  /\ regStatus = "loading"
  /\ registry = <<>>
  /\ warnings = <<>>
  /\ ret = NoRet
  /\ display = EmptyElement
  /\ output = NoOutput
  /\ replaced = ""
  /\ storage = Null
  /\ HostUnloaded
  \* the first and the last millisecond of every beat of the UTC days
  \* before and after 1970-01-01T00:00Z, on every host
  /\ \E day \in {-1, 0}, b \in 0..999, ms \in {0, 86399}, o \in TimezoneOffsets :
       dateArg = [time |-> TimeValue(day, b * 86400 + ms), tzOffset |-> o]
  /\ result = NoResult
  /\ rep = NoRep

SwatchNext == CallSwatchFormat

SpecSwatch == SwatchInit /\ [][SwatchNext]_vars

\* The French Republican provider: a date is drawn and format is applied
\* to it, the loop of gregorianToRepublican one iteration at a time.  The
\* call runs on JavaScript's single thread, which takes the next step of a
\* running function as long as there is one.
RepublicanInit ==
  /\ systems = <<>>
  /\ regIdx = 1
  /\ regStatus = "loading"
  /\ registry = <<>>
  /\ warnings = <<>>
  /\ ret = NoRet
  /\ display = EmptyElement
  /\ output = NoOutput
  /\ replaced = ""
  /\ storage = Null
  /\ HostUnloaded
  \* from the day before the epoch on, the first and the last millisecond
  \* of each day, on a host on Central European Time
  /\ \E d \in (0 - 1)..MaxRepublicanDays, ms \in {0, msPerDay - 1}, o \in {-60} :
       dateArg = [time |-> PlusMs(TimeValue(epoch(o).day + d, epoch(o).ms), ms),
                  tzOffset |-> o]
  /\ result = NoResult
  /\ rep = NoRep

RepublicanNext ==
  \/ GregorianEnter
  \/ GregorianCountYear
  \/ GregorianReturn

SpecRepublican ==
  RepublicanInit /\ [][RepublicanNext]_vars /\ WF_vars(RepublicanNext)




-----------------------------------------------------------------------------
(* Registry: what the specification calls an accepted provider, stated on  *)
(* the registration list alone.                                            *)

WellFormed(c) ==
  /\ c.type = "object"
  /\ c.id.type = "string"
  /\ c.name.type = "string"
  /\ c.description.type = "string"
  /\ c.format.type = "function"

\* Positions of the accepted candidates: well-formed, and no well-formed
\* candidate with the same id earlier in the list.
AcceptedIdx ==
  {i \in 1..Len(systems) :
     /\ WellFormed(systems[i])
     /\ \A j \in 1..(i - 1) :
          ~(WellFormed(systems[j]) /\ systems[j].id = systems[i].id)}

RECURSIVE Ascending(_)
Ascending(S) ==
  IF S = {} THEN <<>>
  ELSE LET m == CHOOSE x \in S : \A y \in S : x <= y
       IN <<m>> \o Ascending(S \ {m})

InSeq(x, q) == \E i \in 1..Len(q) : q[i] = x

Occurrences(x, q) == Cardinality({i \in 1..Len(q) : q[i] = x})

\* C1: once the registry is built, getById(p.id) is p for every accepted
\* provider p, and getAll() holds each accepted provider exactly once, in
\* the order of the registration list, and nothing else.
C1_AcceptedRetrievableInOrder ==
  regStatus = "loaded" =>
    /\ \A i \in AcceptedIdx : getSystem(registry, systems[i].id.val) = i
    /\ \A i \in AcceptedIdx : Occurrences(i, getAllSystems(registry).refs) = 1
    /\ getAllSystems(registry).refs = Ascending(AcceptedIdx)

C1_Witness ==
  /\ regStatus = "loaded"
  /\ Cardinality(AcceptedIdx) = 2
  /\ Len(systems) = 3
  /\ ~WellFormed(systems[2])
  /\ ret.fn = "getAllSystems"
  /\ ret.refs = <<1, 3>>

\* C2: of two valid candidates with the same id only the first is
\* retrievable by getById and present in getAll(); the later one is dropped
\* and does not overwrite the first, whatever lies between them.
C2_FirstRegisteredWins ==
  regStatus = "loaded" =>
    \A i, j \in 1..Len(systems) :
      (/\ i < j
       /\ i \in AcceptedIdx
       /\ WellFormed(systems[j])
       /\ systems[j].id = systems[i].id)
      => /\ getSystem(registry, systems[i].id.val) = i
         /\ InSeq(i, getAllSystems(registry).refs)
         /\ ~InSeq(j, getAllSystems(registry).refs)

C2_Witness ==
  /\ regStatus = "loaded"
  /\ Len(systems) = 3
  /\ WellFormed(systems[1]) /\ WellFormed(systems[2]) /\ WellFormed(systems[3])
  /\ systems[1].id = systems[3].id
  /\ systems[2].id # systems[1].id
  /\ ret.fn = "getSystem"
  /\ ret.arg = systems[1].id.val
  /\ ret.refs = <<1>>
  /\ Len(warnings) = 1 /\ warnings[1].msg = "Duplicate system ID"

\* A candidate object whose format is missing or not callable.
BadFormat(c) == c.type = "object" /\ c.format.type # "function"

\* C3: a candidate object whose format is missing or not callable is never
\* in getById or getAll(); the loop iteration that meets it does not throw
\* and moves on to the next candidate.
C3_BadFormatExcluded ==
  /\ [](\A i \in 1..Len(systems) :
          BadFormat(systems[i]) =>
            /\ getSystem(registry, systems[i].id.val) # i
            /\ ~InSeq(i, getAllSystems(registry).refs)
            /\ ~(regStatus = "threw" /\ regIdx = i))
  /\ [][(/\ regStatus = "loading"
         /\ regIdx <= Len(systems)
         /\ BadFormat(systems[regIdx]))
        => (/\ regStatus' = "loading"
            /\ regIdx' = regIdx + 1
            /\ registry' = registry)]_vars

C3_Witness ==
  /\ regStatus = "loaded"
  /\ Len(systems) = 2
  /\ BadFormat(systems[1]) /\ systems[1].id.type = "string"
  /\ WellFormed(systems[2])
  /\ systems[2].id = systems[1].id
  /\ ret.fn = "getAllSystems"
  /\ ret.refs = <<2>>

\* C4: no malformed candidate, whatever its shape (an object with missing or
\* wrongly typed fields, null, undefined or another non-object), is fatal:
\* the iteration that meets it logs one warning, leaves the registry as it
\* is, does not throw and moves on to the next candidate.
C4_ValidationNeverFatal ==
  [][(/\ regStatus = "loading"
      /\ regIdx <= Len(systems)
      /\ ~WellFormed(systems[regIdx]))
     => (/\ regStatus' = "loading"
         /\ regIdx' = regIdx + 1
         /\ Len(warnings') = Len(warnings) + 1
         /\ registry' = registry)]_vars

\* C5: on a non-empty registry getDefault() is the accepted provider with id
\* "standard" when there is one, wherever it was registered, and otherwise
\* the first accepted provider in registration order.
C5_DefaultIsStandardElseFirst ==
  (regStatus = "loaded" /\ AcceptedIdx # {}) =>
    IF \E i \in AcceptedIdx : systems[i].id.val = "standard"
    THEN \E i \in AcceptedIdx :
           /\ systems[i].id.val = "standard"
           /\ getDefaultSystem(registry) = i
    ELSE getDefaultSystem(registry) = Ascending(AcceptedIdx)[1]

C5_Witness ==
  /\ regStatus = "loaded"
  /\ Len(systems) = 3
  /\ AcceptedIdx = {1, 2, 3}
  /\ systems[2].id.val = "standard"
  /\ ret.fn = "getDefaultSystem"
  /\ ret.refs = <<2>>

-----------------------------------------------------------------------------
(* Renderer: the painted tree, read off the target element.                *)

\* An optional field is present when the display carries it at all.
Present(v) == v.type # "undefined"

\* An optional field is present and its text is not empty.
PresentNonEmpty(v) == v.type # "undefined" /\ v.val # ""

\* The class and text of each element of a sequence of elements.
Painted(kids) ==
  [i \in 1..Len(kids) |-> <<kids[i].className, kids[i].textContent>>]

Classes(kids) == [i \in 1..Len(kids) |-> kids[i].className]

Leaves(kids) == \A i \in 1..Len(kids) : kids[i].children = <<>>

OptNode(given, cls, v) == IF given THEN <<(<<cls, v.val>>)>> ELSE <<>>

\* The target holds a Unified painting of output in which an optional field
\* has a node exactly when Given holds of it.
UnifiedPaintedWhen(Given(_)) ==
  /\ Len(display.children) >= 1
  /\ LET main == display.children[1]
         below == Tail(display.children)
     IN /\ main.className = "display__main"
        /\ Painted(main.children) =
             OptNode(Given(output.prefix), "display__prefix", output.prefix)
               \o <<(<<"display__value", output.value>>)>>
               \o OptNode(Given(output.suffix), "display__suffix", output.suffix)
        /\ Leaves(main.children)
        /\ Painted(below) =
             OptNode(Given(output.label), "display__label", output.label)
               \o OptNode(Given(output.sublabel), "display__sublabel", output.sublabel)
        /\ Leaves(below)

\* C9 (as stated): after render of a Unified display the target holds one
\* main node with a prefix span exactly when prefix is present, the value
\* span with exactly the value's text, a suffix span exactly when suffix is
\* present, in that order; below it a label node and a sublabel node, each
\* exactly when the field is present and with exactly its text.
C9_UnifiedNodesWhenPresent ==
  output.type = "unified" => UnifiedPaintedWhen(Present)

\* C9 (amended): the same, with a node for an optional field exactly when
\* the field is present and its text is not empty.
C9_UnifiedNodesWhenNonEmpty ==
  output.type = "unified" => UnifiedPaintedWhen(PresentNonEmpty)

C9_Witness ==
  /\ output.type = "unified"
  /\ output.value = "42"
  /\ output.prefix = Undef /\ output.suffix = Str("")
  /\ output.label = Str("widgets") /\ output.sublabel = Undef
  /\ Len(display.children) = 2
  /\ Painted(display.children[1].children) = <<(<<"display__value", "42">>)>>
  /\ Painted(Tail(display.children)) = <<(<<"display__label", "widgets">>)>>

\* The target holds a Split painting of output in which era and period have
\* a span exactly when Given holds of them.
SplitPaintedWhen(Given(_)) ==
  /\ Classes(display.children) =
       <<"display__date", "display__separator", "display__time">>
  /\ display.children[2].tag = "span"
  /\ display.children[2].children = <<>>
  /\ display.children[2].textContent =
       (IF Present(output.separator) THEN output.separator.val
        ELSE DefaultSplitSeparator)
  /\ Classes(display.children[1].children) =
       (IF Given(output.date.era) THEN <<"display__era">> ELSE <<>>)
  /\ Classes(display.children[3].children) =
       (IF Given(output.time.period) THEN <<"display__period">> ELSE <<>>)

\* C10 (as stated): after render of a Split display the target holds exactly
\* the date block, one separator span and the time block, in that order; the
\* separator's text is the display's separator when one is given and the
\* default bullet separator when it is omitted; the date block holds an era
\* span exactly when era is present and the time block a period span exactly
\* when period is present.
C10_SplitNodesWhenPresent ==
  output.type = "split" => SplitPaintedWhen(Present)

\* C10 (amended): the same, with the era span and the period span exactly
\* when the field is present and its text is not empty.
C10_SplitNodesWhenNonEmpty ==
  output.type = "split" => SplitPaintedWhen(PresentNonEmpty)

C10_Witness ==
  /\ output.type = "split"
  /\ output.separator = Undef
  /\ output.date.era = Str("CE") /\ output.time.period = Undef
  /\ Len(display.children) = 3
  /\ display.children[2].textContent = DefaultSplitSeparator
  /\ Len(display.children[1].children) = 1
  /\ display.children[3].children = <<>>

\* C11: after render of a Segmented display with n segments the target holds
\* one grouping node whose children are the n segment nodes in sequence
\* order with exactly max(0, n-1) separator nodes, one strictly between each
\* two consecutive segment nodes and none before the first or after the
\* last; a separator's text is the display's separator, or ":" when the
\* display has none; a segment node holds its value and then its label.
C11_SegmentedSeparatorsBetween ==
  output.type = "segmented" =>
    LET n == Len(output.segments)
        sepText == IF Present(output.separator) THEN output.separator.val ELSE ":"
    IN /\ Len(display.children) = 1
       /\ display.children[1].className = "display__segments"
       /\ LET kids == display.children[1].children
          IN /\ Len(kids) = n + (IF n = 0 THEN 0 ELSE n - 1)
             /\ Cardinality({i \in 1..Len(kids) :
                               kids[i].className = "display__seg-separator"})
                  = (IF n = 0 THEN 0 ELSE n - 1)
             /\ \A k \in 1..n :
                  /\ kids[2 * k - 1].className = "display__segment"
                  /\ Painted(kids[2 * k - 1].children) =
                       <<(<<"display__seg-value", output.segments[k].value.val>>),
                         (<<"display__seg-label", output.segments[k].label>>)>>
                  /\ Leaves(kids[2 * k - 1].children)
             /\ \A k \in 1..(n - 1) :
                  /\ kids[2 * k].className = "display__seg-separator"
                  /\ kids[2 * k].textContent = sepText
                  /\ kids[2 * k].children = <<>>

\* Three segments and no separator given: five nodes, the second and the
\* fourth being ":" separators.
C11_Witness ==
  /\ output.type = "segmented"
  /\ Len(output.segments) = 3
  /\ output.separator = Undef
  /\ Len(display.children) = 1
  /\ Classes(display.children[1].children) =
       <<"display__segment", "display__seg-separator", "display__segment",
         "display__seg-separator", "display__segment">>
  /\ display.children[1].children[2].textContent = ":"
  /\ display.children[1].children[4].textContent = ":"

\* C12: render is a full replace: after render(d, target) the target's
\* content and its variant class are those of rendering d on an empty
\* target, whatever the target held before, so that rendering d after any
\* earlier renders, or twice in a row, gives the same as rendering it once.
C12_RenderIsFullReplace ==
  output.type # "none" =>
    /\ display = render(output, EmptyElement)
    /\ display.className = "display display--" \o output.type
    /\ display.textContent = ""

\* A Unified display was rendered into a target that held a Split one.
C12_Witness ==
  /\ replaced = "display display--split"
  /\ output.type = "unified"
  /\ output.label = Str("widgets")
  /\ output.prefix = Undef /\ output.suffix = Undef /\ output.sublabel = Undef
  /\ display.className = "display display--unified"
  /\ Classes(display.children) = <<"display__main", "display__label">>

-----------------------------------------------------------------------------
(* Host and registry together.                                             *)

\* C6: with an empty registry getDefault() signals a fatal condition: the
\* main module never gets past its call of getDefault() holding an absent
\* value as its current provider.
C6_EmptyRegistryIsFatal ==
  (regStatus = "loaded" /\ registry = <<>>) =>
    ~(/\ hostStatus = "loaded"
      /\ ret.fn = "getDefaultSystem"
      /\ currentSystem = UndefinedRef)

\* C7: a switch request for an id that is not in the registry changes
\* nothing: the current provider, the timer, the visual scaffold, the
\* reference link and the persisted preference stay as they were.
C7_UnknownSwitchIsNoOp ==
  [][(/\ ret'.fn = "switchSystem"
      /\ getSystem(registry, ret'.arg) = UndefinedRef)
     => UNCHANGED <<currentSystem, tickHandle, timers, visualContainer,
                    learnMoreLink, storage>>]_vars

C7_Witness ==
  /\ hostStatus = "running"
  /\ ret.fn = "switchSystem"
  /\ ret.arg = "stardate"
  /\ getSystem(registry, ret.arg) = UndefinedRef
  /\ currentSystem # UndefinedRef
  /\ Cardinality(timers) = 1
  /\ Len(visualContainer.children) = 1
  /\ learnMoreLink.display = ""
  /\ storage = Str("stardate")

\* C8: once populated the registry never changes: whatever the step (a call
\* of getAll, a lookup or default selection by the host, a tick, a switch, a
\* caller writing to the array getAll() gave it), getAll() returns the same
\* providers in the same order after it as before it.
C8_RegistryNeverMutated ==
  [][regStatus = "loaded" =>
       getAllSystems(registry').refs = getAllSystems(registry).refs]_vars

C8_Witness ==
  /\ hostStatus = "running"
  /\ nextHandle > 2
  /\ held.written
  /\ ret.fn = "getAllSystems"
  /\ Len(ret.refs) = 2
  /\ Len(held.refs) = 1

-----------------------------------------------------------------------------
(* Visual renderer: the scaffold, read off the target element.             *)

BarClasses == {"visual__svg", "visual__svg--bar"}

RingClasses == {"visual__svg", "visual__svg--ring"}

ClockClasses == {"visual__svg", "visual__svg--clock"}

\* The scaffold class set a visual of the given type builds.
ClassesFor(type) ==
  CASE type = "progress-bar" -> BarClasses
    [] type = "progress-ring" -> RingClasses
    [] type = "clock" -> ClockClasses
    [] OTHER -> {}

\* The children of the target's svg that carry the class.
Parts(container, cls) ==
  LET si == QueryIndex(container.children, "visual__svg")
      Has(el) == cls \in el.className
  IN IF si = 0 THEN <<>> ELSE SelectSeq(container.children[si].children, Has)

\* The latest call was renderVisual for a visual of this type and returned.
Rendered(call, type) ==
  /\ call.fn = "renderVisual"
  /\ call.visual.type = type
  /\ ~call.threw

\* The latest call met the scaffold of its own shape (shape continuity).
OntoOwnShape(call) == call.onto = ClassesFor(call.visual.type)

\* The attributes a render call recomputes: those of the fill and of the
\* hands.  What is left of an element is its static part.
StaticPart(el) ==
  [tag |-> el.tag, className |-> el.className,
   attrs |-> IF "visual__fill" \in el.className \/ "visual__hand" \in el.className
             THEN [a \in (DOMAIN el.attrs) \ {"width", "stroke-dashoffset", "angle", "length"}
                     |-> el.attrs[a]]
             ELSE el.attrs]

\* The static part of everything under the target.
StaticTree(container) ==
  [i \in 1..Len(container.children) |->
     [svg |-> StaticPart(container.children[i]),
      kids |-> [j \in 1..Len(container.children[i].children) |->
                  StaticPart(container.children[i].children[j])]]]

\* C13: for a progress bar with positive max, rendered into a target that
\* holds no scaffold or a bar's, the fill width is min(value / max, 1) times
\* the track width, which is 120: 60 for value 50 of max 100, 120 for any
\* value at or above max, and a negative width for a negative value.
C13_BarFillWidth ==
  (/\ Rendered(visualCall, "progress-bar")
   /\ visualCall.onto \in {{}, BarClasses}) =>
    LET value == visualCall.visual.getValue[visualCall.date]
        max == visualCall.visual.max
        fraction == IF QLeq(max, value) THEN QInt(1) ELSE QDiv(value, max)
        track == Parts(visualContainer, "visual__track")
        fill == Parts(visualContainer, "visual__fill")
    IN /\ Len(track) = 1 /\ Len(fill) = 1
       /\ track[1].attrs["width"] = QInt(120)
       /\ fill[1].attrs["width"] = QMul(fraction, track[1].attrs["width"])
       /\ (value = QInt(50) /\ max = QInt(100)) => fill[1].attrs["width"] = QInt(60)
       /\ QLeq(max, value) => fill[1].attrs["width"] = QInt(120)
       /\ value.n < 0 => fill[1].attrs["width"].n < 0

\* Value 50 of max 100: the fill is half the track.
C13_Witness ==
  /\ Rendered(visualCall, "progress-bar")
  /\ visualCall.visual.max = QInt(100)
  /\ visualCall.visual.getValue[visualCall.date] = QInt(50)
  /\ Parts(visualContainer, "visual__fill")[1].attrs["width"] = QInt(60)
  /\ Parts(visualContainer, "visual__track")[1].attrs["width"] = QInt(120)

\* C14: the target never holds more than one scaffold, and a scaffold holds
\* exactly one track and one fill (bar, ring) or exactly one face, one hour
\* hand and one minute hand and at most one second hand (clock); a
\* renderVisual call that meets no scaffold builds one, and a renderVisual
\* call that meets the scaffold of its own shape creates and removes no
\* node and changes nothing but the fill's and the hands' attributes.
C14_StaticScaffold ==
  /\ Len(visualContainer.children) <= 1
  /\ \A i \in 1..Len(visualContainer.children) :
       "visual__svg" \in visualContainer.children[i].className
  /\ ScaffoldOf(visualContainer) \in {BarClasses, RingClasses} =>
       /\ Len(Parts(visualContainer, "visual__track")) = 1
       /\ Len(Parts(visualContainer, "visual__fill")) = 1
  /\ ScaffoldOf(visualContainer) = ClockClasses =>
       /\ Len(Parts(visualContainer, "visual__face")) = 1
       /\ Len(Parts(visualContainer, "visual__hand--hour")) = 1
       /\ Len(Parts(visualContainer, "visual__hand--minute")) = 1
       /\ Len(Parts(visualContainer, "visual__hand--second")) <= 1

C14_OnlyDynamicAttributesChange ==
  /\ []C14_StaticScaffold
  /\ [][(visualCall'.fn = "renderVisual" /\ ~visualCall'.threw) =>
          /\ visualCall'.onto = {} =>
               ScaffoldOf(visualContainer') = ClassesFor(visualCall'.visual.type)
          /\ OntoOwnShape(visualCall') =>
               StaticTree(visualContainer') = StaticTree(visualContainer)]_vars

\* A bar was rendered into a target that already held a bar scaffold, and
\* the one fill now shows the full track.
C14_Witness ==
  /\ Rendered(visualCall, "progress-bar")
  /\ visualCall.onto = BarClasses
  /\ Len(visualContainer.children) = 1
  /\ Len(visualContainer.children[1].children) = 2
  /\ Parts(visualContainer, "visual__fill")[1].attrs["width"] = QInt(120)

\* C15: for a clock with positive divisions, after renderVisual the hour
\* hand points at (hands.hour / divisions) * 360 - 90 degrees and the minute
\* hand at (hands.minute / 100) * 360 - 90 degrees, whatever divisions is;
\* with divisions 12, hour 3 and minute 0 the hour hand is at 0 degrees, a
\* quarter turn after the 12-o'clock reference of -90 degrees, and the
\* minute hand is on the reference.
C15_ClockHandAngles ==
  Rendered(visualCall, "clock") =>
    LET hands == visualCall.visual.getHands[visualCall.date]
        divisions == visualCall.visual.divisions
        hour == Parts(visualContainer, "visual__hand--hour")
        minute == Parts(visualContainer, "visual__hand--minute")
    IN /\ Len(hour) = 1 /\ Len(minute) = 1
       /\ hour[1].attrs["angle"] =
            QSub(QMul(QDiv(hands.hour, QInt(divisions)), QInt(360)), QInt(90))
       /\ minute[1].attrs["angle"] =
            QSub(QMul(QDiv(hands.minute, QInt(100)), QInt(360)), QInt(90))
       /\ (divisions = 12 /\ hands.hour = QInt(3) /\ hands.minute = QInt(0)) =>
            /\ hour[1].attrs["angle"] = QInt(-90 + 90)
            /\ minute[1].attrs["angle"] = QInt(-90)

\* Divisions 12, hour 3, minute 0.
C15_Witness ==
  /\ Rendered(visualCall, "clock")
  /\ visualCall.visual.divisions = 12
  /\ visualCall.visual.getHands[visualCall.date].hour = QInt(3)
  /\ visualCall.visual.getHands[visualCall.date].minute = QInt(0)
  /\ Parts(visualContainer, "visual__hand--hour")[1].attrs["angle"] = QInt(0)
  /\ Parts(visualContainer, "visual__hand--minute")[1].attrs["angle"] = QInt(-90)

\* C16 (as stated): after every renderVisual call for a clock the second
\* hand is there, at (hands.second / 100) * 360 - 90 degrees, if and only if
\* hands.second is defined for that call.
C16_SecondHandIffDefined ==
  Rendered(visualCall, "clock") =>
    LET hands == visualCall.visual.getHands[visualCall.date]
        second == Parts(visualContainer, "visual__hand--second")
    IN IF hands.hasSecond
       THEN /\ Len(second) = 1
            /\ "angle" \in DOMAIN second[1].attrs
            /\ second[1].attrs["angle"] =
                 QSub(QMul(QDiv(hands.second, QInt(100)), QInt(360)), QInt(90))
       ELSE second = <<>>

\* The markers of the target's clock face, as their angles in sequence.
MarkerAngles(container) ==
  LET markers == Parts(container, "visual__marker")
  IN [i \in 1..Len(markers) |-> markers[i].attrs["angle"]]

\* C17: the renderVisual call that builds a clock scaffold puts exactly
\* divisions markers on it, marker i (i = 0 .. divisions-1) at i/divisions
\* of a full turn from the 12-o'clock reference of -90 degrees; a later
\* renderVisual call on that scaffold leaves their number and positions
\* as they are.
C17_MarkersBuiltOnce ==
  /\ [][(Rendered(visualCall', "clock") /\ visualCall'.onto = {}) =>
          MarkerAngles(visualContainer') =
            [i \in 1..visualCall'.visual.divisions |->
               QSub(Q((i - 1) * 360, visualCall'.visual.divisions), QInt(90))]]_vars
  /\ [][(visualCall'.fn = "renderVisual" /\ visualCall'.onto = ClockClasses) =>
          MarkerAngles(visualContainer') = MarkerAngles(visualContainer)]_vars

\* A clock of 12 divisions was rendered onto a scaffold built for one of 10:
\* the face still has its 10 markers.
C17_Witness ==
  /\ Rendered(visualCall, "clock")
  /\ visualCall.onto = ClockClasses
  /\ visualCall.visual.divisions = 12
  /\ Len(MarkerAngles(visualContainer)) = 10
  /\ MarkerAngles(visualContainer)[1] = QInt(-90)
  /\ MarkerAngles(visualContainer)[2] = QInt(-54)

\* C18: clearVisual leaves nothing of the scaffold under the target,
\* whatever shape it had, and leaves a target without scaffold as it is; the
\* renderVisual call that follows builds the whole scaffold of its shape:
\* track and fill, or face, divisions markers, hour hand, minute hand and
\* center.
C18_ClearRemovesScaffold ==
  /\ [][visualCall'.fn = "clearVisual" =>
          /\ visualContainer'.children = <<>>
          /\ ScaffoldOf(visualContainer') = {}
          /\ visualCall'.onto = {} => visualContainer' = visualContainer]_vars
  /\ [][(/\ visualCall.fn = "clearVisual"
         /\ visualCall'.fn = "renderVisual" /\ ~visualCall'.threw) =>
          /\ visualCall'.onto = {}
          /\ Len(visualContainer'.children) = 1
          /\ ScaffoldOf(visualContainer') = ClassesFor(visualCall'.visual.type)
          /\ visualCall'.visual.type \in {"progress-bar", "progress-ring"} =>
               [i \in 1..Len(visualContainer'.children[1].children) |->
                  visualContainer'.children[1].children[i].className]
                 = <<{"visual__track"}, {"visual__fill"}>>
          /\ visualCall'.visual.type = "clock" =>
               /\ Len(visualContainer'.children[1].children)
                    = visualCall'.visual.divisions + 4
                      + (IF Len(Parts(visualContainer', "visual__hand--second")) = 1
                         THEN 1 ELSE 0)
               /\ Len(Parts(visualContainer', "visual__face")) = 1
               /\ Len(Parts(visualContainer', "visual__marker"))
                    = visualCall'.visual.divisions
               /\ Len(Parts(visualContainer', "visual__hand--hour")) = 1
               /\ Len(Parts(visualContainer', "visual__hand--minute")) = 1
               /\ Len(Parts(visualContainer', "visual__center")) = 1]_vars

\* clearVisual met a clock scaffold and the target is empty.
C18_Witness ==
  /\ visualCall.fn = "clearVisual"
  /\ visualCall.onto = ClockClasses
  /\ visualContainer.children = <<>>

-----------------------------------------------------------------------------
(* Host: timers and the visual target.                                     *)

\* C19: in every state of the host at most one recurring timer is armed,
\* and an armed timer is the one tickHandle names: a switch cancels the
\* timer of tickHandle before it arms the new one, in the same callback.
C19_AtMostOneTimer ==
  /\ Cardinality(timers) <= 1
  /\ \A t \in timers : t.handle = tickHandle

\* After a switch the only armed timer is the second one the host created.
C19_Witness ==
  /\ hostStatus = "running"
  /\ ret.fn = "switchSystem"
  /\ tickHandle = 2
  /\ Cardinality(timers) = 1
  /\ \A t \in timers : t.handle = 2

\* The visual shape of the current provider, "undefined" when it has no
\* visual or when there is no current provider.
CurrentShape ==
  IF currentSystem = UndefinedRef THEN "undefined"
  ELSE systems[currentSystem].visual.type

\* C20: every successful switch calls clearVisual before anything is drawn,
\* so in every state the visual target holds no scaffold or the scaffold of
\* the current provider's visual shape, renderVisual never meets a scaffold
\* of another shape, and after a switch to a provider without visual the
\* target holds no scaffold.
C20_ScaffoldIsCurrentProviders ==
  /\ [](ScaffoldOf(visualContainer) \in {{}, ClassesFor(CurrentShape)})
  /\ [](visualCall.fn = "renderVisual" =>
          visualCall.onto \in {{}, ClassesFor(visualCall.visual.type)})
  /\ [][(ret'.fn = "switchSystem" /\ getSystem(registry, ret'.arg) # UndefinedRef) =>
          /\ \/ visualCall'.fn = "clearVisual"
             \/ visualCall'.fn = "renderVisual" /\ visualCall'.onto = {}
          /\ systems[getSystem(registry, ret'.arg)].visual.type = "undefined" =>
               visualContainer'.children = <<>>]_vars

\* A switch to a provider without visual met the clock scaffold of the
\* previous provider and left the target empty.
C20_Witness ==
  /\ ret.fn = "switchSystem"
  /\ ret.arg = "epoch-seconds"
  /\ currentSystem # UndefinedRef
  /\ systems[currentSystem].id = Str("epoch-seconds")
  /\ visualCall.fn = "clearVisual"
  /\ visualCall.onto = ClockClasses
  /\ visualContainer.children = <<>>

-----------------------------------------------------------------------------
(* Host: the preference, the timer's interval, the link, the selector.     *)

\* The step is a switchSystem call that reached its end: it armed a timer.
\* (A call for an unknown id returns at line 47, and one whose tick throws
\* ends at line 54; neither arms a timer.)
Switched == ret'.fn = "switchSystem" /\ nextHandle' # nextHandle

\* The step is init() and it returned.
InitReturned == ret'.fn = "init" /\ ret'.arg = ""

\* The provider a stored value names, UndefinedRef when it names none.
StoredProvider(v) ==
  IF v.type = "string" THEN getSystem(registry, v.val) ELSE UndefinedRef

TickFault ==
  \/ ret'.fn \in {"init", "tick"} /\ ret'.arg = "threw" /\ currentSystem' # UndefinedRef
  \/ /\ ret'.fn = "switchSystem"
     /\ getSystem(registry, ret'.arg) # UndefinedRef
     /\ systems[getSystem(registry, ret'.arg)].formatBody = "throws"

\* C22 (as stated): a fault of the provider inside a tick is contained: the
\* host still has its timer afterwards, and its current provider is still
\* the persisted one whenever the store names a provider.
C22_TickFaultsContained ==
  [][TickFault =>
       /\ timers' # {}
       /\ StoredProvider(storage') # UndefinedRef =>
            currentSystem' = StoredProvider(storage')]_vars

\* The interval the host is to arm for a provider.
ExpectedInterval(p) ==
  IF p.tickInterval.type = "number" THEN p.tickInterval.val ELSE "1000"

\* C23: an armed timer always has the interval of the current provider, its
\* tickInterval when it has one and 1000 when it has none; init that
\* returns and a switch that completes leave exactly one timer armed.
C23_TimerHasCurrentInterval ==
  /\ [](\A t \in timers :
          /\ currentSystem # UndefinedRef
          /\ t.interval = ExpectedInterval(systems[currentSystem]))
  /\ [][(Switched \/ InitReturned) => Cardinality(timers') = 1]_vars

\* After a switch to a provider without tickInterval the one timer has
\* 1000, in a run in which a provider of interval 864 is registered.
C23_Witness ==
  /\ ret.fn = "switchSystem"
  /\ currentSystem # UndefinedRef
  /\ systems[currentSystem].id = Str("epoch-seconds")
  /\ \E i \in 1..Len(systems) : systems[i].tickInterval = Num("864")
  /\ timers = {[handle |-> tickHandle, interval |-> "1000"]}
  /\ tickHandle >= 2

C30_SelectorShowsCurrentProvider ==
  hostStatus = "running" =>
    /\ currentSystem # UndefinedRef
    /\ selector.value = systems[currentSystem].id.val

-----------------------------------------------------------------------------
(* Visual renderer: the progress ring.  Lengths along the ring are in      *)
(* units of its circumference, 2 * pi * (VISUAL_SIZE - STROKE_WIDTH) / 2.  *)

\* C26: for a progress ring with positive max, rendered into a target that
\* holds no scaffold or a ring's, the arc's dash array is the circumference
\* and its dash offset is circumference * (1 - progress) with progress =
\* min(value / max, 1), so the visible arc is circumference * progress:
\* offset 0 for any value at or above max, offset of one circumference for
\* value 0.
C26_RingDashOffset ==
  (/\ Rendered(visualCall, "progress-ring")
   /\ visualCall.onto \in {{}, RingClasses}) =>
    LET value == visualCall.visual.getValue[visualCall.date]
        max == visualCall.visual.max
        progress == IF QLeq(max, value) THEN QInt(1) ELSE QDiv(value, max)
        arc == Parts(visualContainer, "visual__fill")
    IN /\ Len(arc) = 1
       /\ arc[1].attrs["stroke-dasharray"] = QInt(1)
       /\ arc[1].attrs["stroke-dashoffset"] = QSub(QInt(1), progress)
       /\ QSub(arc[1].attrs["stroke-dasharray"], arc[1].attrs["stroke-dashoffset"])
            = progress
       /\ QLeq(max, value) => arc[1].attrs["stroke-dashoffset"] = QInt(0)
       /\ value = QInt(0) => arc[1].attrs["stroke-dashoffset"] = QInt(1)

\* Value 250 of max 1000: three quarters of the circumference are offset.
C26_Witness ==
  /\ Rendered(visualCall, "progress-ring")
  /\ visualCall.visual.max = QInt(1000)
  /\ visualCall.visual.getValue[visualCall.date] = QInt(250)
  /\ Parts(visualContainer, "visual__fill")[1].attrs["stroke-dashoffset"] = Q(3, 4)
  /\ Parts(visualContainer, "visual__fill")[1].attrs["stroke-dasharray"] = QInt(1)

-----------------------------------------------------------------------------
(* Registry: the acceptance rule.                                          *)

\* C27: the iteration that meets a candidate puts it into the registry if
\* and only if its required fields are in order and the registry holds no
\* provider of its id yet, whatever its category, tickInterval,
\* learnMoreUrl and visual are; so the built registry holds exactly the
\* candidates with required fields in order that no such candidate of the
\* same id precedes.
C27_AcceptedIffRequiredFieldsAndNewId ==
  /\ [][(regStatus = "loading" /\ (regIdx' # regIdx \/ regStatus' = "threw")) =>
          LET c == systems[regIdx]
              accept == /\ WellFormed(c)
                        /\ \A k \in 1..Len(registry) : registry[k].key # c.id.val
          IN /\ accept => registry' = Append(registry, [key |-> c.id.val, ref |-> regIdx])
             /\ ~accept => registry' = registry]_vars
  /\ [](regStatus = "loaded" =>
          \A i \in 1..Len(systems) :
             InSeq(i, MapValues(registry)) <=>
               /\ WellFormed(systems[i])
               /\ \A j \in 1..(i - 1) :
                    ~(WellFormed(systems[j]) /\ systems[j].id = systems[i].id))

\* A candidate with odd optional fields is in the built registry and one
\* with faultless optional fields but no format is not.
C27_Witness ==
  /\ regStatus = "loaded"
  /\ Len(systems) = 2
  /\ systems[1] = FineOptionals(Obj(Str("holocene"), Str("name"), Str("description"), Undef))
  /\ systems[2] = OddOptionals(Provider("holocene"))
  /\ registry = <<[key |-> "holocene", ref |-> 2]>>

-----------------------------------------------------------------------------
(* Standard provider: the hands of the 12-hour clock.                      *)

\* The local time of day a date shows on its host, read off the time value
\* and the zone without the getters: seconds since local midnight.
SecondOfDay(d) == ((d.time.ms - d.tzOffset * 60000) \div 1000) % 86400

\* C28: at every local time of day h:m:s the hands getHands returns are
\* hour = (h mod 12) + m/60, minute = (m + s/60) * 100/60 and
\* second = s * 100/60, the hour within [0, 12] and the other two within
\* [0, 100]: the scale renderClock divides by for a clock of 12 divisions.
C28_StandardHandsNormalized ==
  result.fn = "getHands" =>
    LET h == SecondOfDay(dateArg) \div 3600
        m == (SecondOfDay(dateArg) \div 60) % 60
        sec == SecondOfDay(dateArg) % 60
        hands == result.hands
    IN /\ h \in 0..23 /\ m \in 0..59 /\ sec \in 0..59
       /\ hands.hour = Q((h % 12) * 60 + m, 60)
       /\ hands.minute = Q((m * 60 + sec) * 100, 3600)
       /\ hands.second = Q(sec * 100, 60)
       /\ QLeq(QInt(0), hands.hour) /\ QLeq(hands.hour, QInt(12))
       /\ QLeq(QInt(0), hands.minute) /\ QLeq(hands.minute, QInt(100))
       /\ QLeq(QInt(0), hands.second) /\ QLeq(hands.second, QInt(100))
       /\ hands.hasSecond

\* One second before local midnight on a host west of Greenwich: the hour
\* hand stands at 11 + 59/60, not at 23 + 59/60.
C28_Witness ==
  /\ result.fn = "getHands"
  /\ dateArg.tzOffset = 300
  /\ getHours(dateArg) = 23 /\ getMinutes(dateArg) = 59 /\ getSeconds(dateArg) = 59
  /\ result.hands.hour = Q(719, 60)
  /\ result.hands.minute = Q(3599, 36)
  /\ result.hands.second = Q(295, 3)

-----------------------------------------------------------------------------
(* Swatch-beats provider: Internet Time has no zones.                      *)

\* The beat of an instant: thousandths of the day that began at midnight
\* UTC+1, from the time value alone.
BeatOf(t) == ((t.ms + 3600000) % msPerDay) \div 86400

\* The beat texts: three decimal digits.
ThreeDigits ==
  {DecimalDigits[a] \o DecimalDigits[b] \o DecimalDigits[c] : a, b, c \in 1..10}

\* C24: the text format returns for an instant is the same on every host,
\* whatever offset its zone has; it is the beat of the instant,
\* floor(milliseconds since midnight UTC+1 / 86400), a number in 0..999,
\* written with three digits.
C24_BeatsSameInEveryZone ==
  result.fn = "swatchBeats.format" =>
    /\ \A o \in TimezoneOffsets :
         swatchBeatsFormat([dateArg EXCEPT !.tzOffset = o]).value = result.display.value
    /\ BeatOf(dateArg.time) \in 0..999
    /\ result.display.value = padStart(toString(BeatOf(dateArg.time)), 3, "0")
    /\ result.display.value \in ThreeDigits

\* What holds of format on every host: a beat in 0..999 written with three
\* digits, and on a host whose zone is UTC the beat of the instant.
C24_ThreeDigitsAndRightOnUtcHosts ==
  result.fn = "swatchBeats.format" =>
    /\ beats(dateArg) \in 0..999
    /\ result.display.value \in ThreeDigits
    /\ dateArg.tzOffset = 0 =>
         result.display.value = padStart(toString(BeatOf(dateArg.time)), 3, "0")

-----------------------------------------------------------------------------
(* French Republican provider: the conversion of the date.                 *)

\* The date is at or after the epoch.
AfterEpoch == daysSinceEpoch(dateArg) >= 0

\* C29: for a date at or after the epoch gregorianToRepublican returns;
\* what it returns is a regular date with month in 0..11 and day in 1..30,
\* or a complementary day with index in 0..4, and in 0..5 in a leap year,
\* so that format finds the day's or the month's name in its table; and
\* each iteration of the loop takes 366 days off for a year
\* isRepublicanLeapYear marks as leap, 365 for any other, and moves on to
\* the next year.
C29_RepublicanDateInRange ==
  /\ (AfterEpoch /\ rep.pc = "idle") ~> (rep.pc = "returned")
  /\ [](AfterEpoch /\ rep.pc = "returned" =>
          LET r == result.rep
          IN /\ r.year >= 1
             /\ IF r.isComplementary
                THEN /\ r.day \in 0..(IF isRepublicanLeapYear(r.year) THEN 5 ELSE 4)
                     /\ r.day + 1 \in 1..Len(COMPLEMENTARY)
                     /\ result.dateStr = COMPLEMENTARY[r.day + 1]
                ELSE /\ r.month \in 0..11
                     /\ r.day \in 1..30
                     /\ r.month + 1 \in 1..Len(MONTHS)
                     /\ result.dateStr = toString(r.day) \o " " \o MONTHS[r.month + 1])
  /\ [][rep.pc = "loop" /\ rep'.pc = "loop" =>
          /\ rep'.year = rep.year + 1
          /\ rep.remainingDays - rep'.remainingDays =
               IF isRepublicanLeapYear(rep.year) THEN 366 ELSE 365]_vars

\* The last day of the year III, the first leap year: the sixth
\* complementary day.
C29_Witness ==
  /\ AfterEpoch
  /\ rep.pc = "returned"
  /\ result.rep = [year |-> 3, month |-> -1, day |-> 5, isComplementary |-> TRUE]
  /\ result.dateStr = "La Fete de la Revolution"

====
